---------------------------- MODULE Spec2Model ----------------------------
(***************************************************************************)
(* Job aggregator of job-snipper: RealJobSearch (services/real_job_search) *)
(* with its in-process cache and per-provider rate limits, and the         *)
(* top-level wrapper services/job_scraper.search_jobs.                     *)
(* Spec, SpecBurst, SpecSent and SpecMock run the calls one after another; *)
(* SpecInterleaved runs two calls step by step on the shared instance.     *)
(*                                                                         *)
(* Text is modelled as a sequence of one-character strings, so that        *)
(* lower(), title() and the substring test "a in b" are computed as        *)
(* Python computes them.  JSON null / Python None is the value NULL.       *)
(* The clock is read once per call: a call takes no model time.            *)
(*                                                                         *)
(* Resume parser (services/resume_parser): parse_resume_to_json with its   *)
(* skills-section extraction, name heuristic and dedupe helper, computed   *)
(* on the characters of the text.                                          *)
(***************************************************************************)
EXTENDS Integers, Sequences, FiniteSets, TLC

VARIABLES
    has_adzuna,     \* RealJobSearch.has_adzuna
    has_rapidapi,   \* RealJobSearch.has_rapidapi
    cache,          \* RealJobSearch.cache: cache_key -> [jobs, timestamp]
    rate_limits,    \* RealJobSearch.rate_limits: api -> [calls, reset_time]
    now,            \* time.time(), whole seconds since construction
    result_count,   \* the max_results this deployment's callers pass
    ret,            \* what the last job_scraper.search_jobs call returned
    raised,         \* whether RealJobSearch.search_jobs raised in the last call
    http,           \* providers sent an HTTP request in the last call, in order
    call,           \* the last call's arguments and the path it took
    first_ret,      \* cache_key -> what the call that wrote the entry returned
    raw_text,       \* the argument of parse_resume_to_json
    parsed,         \* whether it was called, and the structure it returned
    uniq_in,        \* the argument of the dedupe helper uniq
    uniq_out,       \* whether uniq was called, and what it returned
    sent,           \* api -> HTTP requests sent to it in its current window
    threads,        \* two search_jobs calls in flight on the shared instance
    overlapped      \* whether one of them began before the other had ended

aggregator == <<has_adzuna, has_rapidapi, cache, rate_limits, now, result_count, ret,
                raised, http, call, first_ret>>
parser == <<raw_text, parsed, uniq_in, uniq_out>>
request_log == <<sent>>
workers == <<threads, overlapped>>
vars == <<aggregator, parser, request_log, workers>>

(***************************************************************************)
(* Bounds of the model.                                                    *)
(***************************************************************************)
\* max_results ranges over 0..MaxResults
MaxResults == 2
\* the clock stops advancing once it has passed MaxClock seconds
MaxClock == 3602
\* clock advances: half an hour, and a second more
TickSteps == {1800, 1801}
\* searches with tracked queries are issued while every provider's call
\* counter is below MaxCounted (a search that raises is not cached, so the
\* counters of such a session grow without bound)
MaxCounted == 2
\* uniq is given sequences of at most MaxSeqLen entries
MaxSeqLen == 3
\* the mock generator alone is asked for 0..MaxMock listings
MaxMock == 15

(***************************************************************************)
(* Program constants.                                                      *)
(***************************************************************************)
CacheDuration == 3600
RateWindow == 3600
AdzunaLimit == 100
RapidLimit == 50
MatchedSkillsShown == 5
FallbackScore == 50

Min(a, b) == IF a < b THEN a ELSE b

(***************************************************************************)
(* Text.                                                                   *)
(***************************************************************************)
NULL == <<"<None>">>

S_empty == <<>>
S_senior == <<"s", "e", "n", "i", "o", "r">>
S_lead == <<"l", "e", "a", "d">>
S_principal == <<"p", "r", "i", "n", "c", "i", "p", "a", "l">>
S_startup == <<"s", "t", "a", "r", "t", "u", "p">>
S_tech == <<"t", "e", "c", "h">>
S_software == <<"s", "o", "f", "t", "w", "a", "r", "e">>
S_remote == <<"r", "e", "m", "o", "t", "e">>
S_hybrid == <<"h", "y", "b", "r", "i", "d">>
S_python == <<"p", "y", "t", "h", "o", "n">>
S_austin == <<"a", "u", "s", "t", "i", "n">>
S_Any == <<"A", "n", "y">>
S_Python == <<"P", "y", "t", "h", "o", "n">>
S_SQL == <<"S", "Q", "L">>
S_Austin == <<"A", "u", "s", "t", "i", "n">>
S_LeadDev == <<"L", "e", "a", "d", " ", "d", "e", "v">>
S_5years == <<"5", " ", "y", "e", "a", "r", "s">>
S_SoftwareEngineer == <<"S", "o", "f", "t", "w", "a", "r", "e", " ", "E", "n", "g", "i", "n", "e", "e", "r">>
S_Developer == <<"D", "e", "v", "e", "l", "o", "p", "e", "r">>
S_developers == <<"d", "e", "v", "e", "l", "o", "p", "e", "r", "s">>
S_SeniorSp == <<"S", "e", "n", "i", "o", "r", " ">>
S_DashRemote == <<" ", "-", " ", "R", "e", "m", "o", "t", "e">>
S_LeadSp == <<"L", "e", "a", "d", " ">>
S_TechCorp == <<"T", "e", "c", "h", "C", "o", "r", "p", " ", "I", "n", "c", ".">>
S_StartupXYZ == <<"S", "t", "a", "r", "t", "u", "p", "X", "Y", "Z">>
S_Enterprise == <<"E", "n", "t", "e", "r", "p", "r", "i", "s", "e", " ", "S", "o", "l", "u", "t", "i", "o", "n", "s">>
S_SanFrancisco == <<"S", "a", "n", " ", "F", "r", "a", "n", "c", "i", "s", "c", "o", ",", " ", "C", "A">>
S_NewYork == <<"N", "e", "w", " ", "Y", "o", "r", "k", ",", " ", "N", "Y">>
S_Remote == <<"R", "e", "m", "o", "t", "e">>
S_JoinPre == <<"J", "o", "i", "n", " ", "o", "u", "r", " ", "t", "e", "a", "m", " ", "a", "s", " ", "a", " ", "S", "e", "n", "i", "o", "r", " ">>
S_JoinPost == <<".", " ", "W", "e", "'", "r", "e", " ", "l", "o", "o", "k", "i", "n", "g", " ", "f", "o", "r", " ", "p", "a", "s", "s", "i", "o", "n", "a", "t", "e", " ", "d", "e", "v", "e", "l", "o", "p", "e", "r", "s", " ", "t", "o", " ", "b", "u", "i", "l", "d", " ", "i", "n", "n", "o", "v", "a", "t", "i", "v", "e", " ", "s", "o", "l", "u", "t", "i", "o", "n", "s", ".">>
S_FullyPre == <<"F", "u", "l", "l", "y", " ", "r", "e", "m", "o", "t", "e", " ", "p", "o", "s", "i", "t", "i", "o", "n", " ", "f", "o", "r", " ", "a", " ">>
S_FullyPost == <<".", " ", "W", "o", "r", "k", " ", "w", "i", "t", "h", " ", "c", "u", "t", "t", "i", "n", "g", "-", "e", "d", "g", "e", " ", "t", "e", "c", "h", "n", "o", "l", "o", "g", "i", "e", "s", ".">>
S_LeadTeamPre == <<"L", "e", "a", "d", " ", "a", " ", "t", "e", "a", "m", " ", "o", "f", " ">>
S_LeadTeamPost == <<" ", "i", "n", " ", "b", "u", "i", "l", "d", "i", "n", "g", " ", "s", "c", "a", "l", "a", "b", "l", "e", " ", "a", "p", "p", "l", "i", "c", "a", "t", "i", "o", "n", "s", ".">>
S_None == <<"N", "o", "n", "e">>
S_FbTitle == <<"S", "o", "f", "t", "w", "a", "r", "e", " ", "E", "n", "g", "i", "n", "e", "e", "r">>
S_FbCompany == <<"T", "e", "c", "h", " ", "C", "o", "m", "p", "a", "n", "y">>
S_FbDesc == <<"S", "o", "f", "t", "w", "a", "r", "e", " ", "e", "n", "g", "i", "n", "e", "e", "r", "i", "n", "g", " ", "p", "o", "s", "i", "t", "i", "o", "n">>
S_A1title == <<"S", "e", "n", "i", "o", "r", " ", "P", "y", "t", "h", "o", "n", " ", "D", "e", "v">>
S_A1company == <<"A", "c", "m", "e", " ", "S", "o", "f", "t", "w", "a", "r", "e">>
S_A1desc == <<"L", "e", "a", "d", " ", "a", " ", "r", "e", "m", "o", "t", "e", " ", "S", "Q", "L", " ", "t", "e", "a", "m">>
S_A2title == <<"D", "a", "t", "a", " ", "A", "n", "a", "l", "y", "s", "t">>
S_A2company == <<"B", "a", "n", "k">>
S_A2loc == <<"B", "o", "s", "t", "o", "n">>
S_A2desc == <<"S", "Q", "L", " ", "r", "e", "p", "o", "r", "t", "s">>
S_A3title == <<"P", "y", "t", "h", "o", "n", " ", "I", "n", "t", "e", "r", "n">>
S_A3company == <<"H", "u", "b">>
S_A3desc == <<"H", "y", "b", "r", "i", "d", " ", "o", "f", "f", "i", "c", "e">>
S_B1title == <<"G", "o", " ", "E", "n", "g", "i", "n", "e", "e", "r">>
S_B1company == <<"F", "i", "n", "T", "e", "c", "h">>
S_B1loc == <<"A", "u", "s", "t", "i", "n", ",", " ", "T", "X">>
S_B1desc == <<"P", "y", "t", "h", "o", "n", " ", "a", "n", "d", " ", "S", "Q", "L">>
S_B2title == <<"P", "r", "i", "n", "c", "i", "p", "a", "l", " ", "A", "r", "c", "h", "i", "t", "e", "c", "t">>
S_B2company == <<"C", "l", "o", "u", "d">>
S_B2desc == <<"D", "e", "s", "i", "g", "n">>
S_B3title == <<"A", "n", "a", "l", "y", "s", "t">>
S_B3desc == <<"E", "x", "c", "e", "l">>
UpperLetters == {"A", "B", "C", "D", "E", "F", "G", "H", "I", "J", "K", "L", "M", "N", "O", "P", "Q", "R", "S", "T", "U", "V", "W", "X", "Y", "Z"}
LowerLetters == {"a", "b", "c", "d", "e", "f", "g", "h", "i", "j", "k", "l", "m", "n", "o", "p", "q", "r", "s", "t", "u", "v", "w", "x", "y", "z"}
ToLowerTable == ("A" :> "a") @@ ("B" :> "b") @@ ("C" :> "c") @@ ("D" :> "d") @@ ("E" :> "e") @@ ("F" :> "f") @@ ("G" :> "g") @@ ("H" :> "h") @@ ("I" :> "i") @@ ("J" :> "j") @@ ("K" :> "k") @@ ("L" :> "l") @@ ("M" :> "m") @@ ("N" :> "n") @@ ("O" :> "o") @@ ("P" :> "p") @@ ("Q" :> "q") @@ ("R" :> "r") @@ ("S" :> "s") @@ ("T" :> "t") @@ ("U" :> "u") @@ ("V" :> "v") @@ ("W" :> "w") @@ ("X" :> "x") @@ ("Y" :> "y") @@ ("Z" :> "z")
ToUpperTable == ("a" :> "A") @@ ("b" :> "B") @@ ("c" :> "C") @@ ("d" :> "D") @@ ("e" :> "E") @@ ("f" :> "F") @@ ("g" :> "G") @@ ("h" :> "H") @@ ("i" :> "I") @@ ("j" :> "J") @@ ("k" :> "K") @@ ("l" :> "L") @@ ("m" :> "M") @@ ("n" :> "N") @@ ("o" :> "O") @@ ("p" :> "P") @@ ("q" :> "Q") @@ ("r" :> "R") @@ ("s" :> "S") @@ ("t" :> "T") @@ ("u" :> "U") @@ ("v" :> "V") @@ ("w" :> "W") @@ ("x" :> "X") @@ ("y" :> "Y") @@ ("z" :> "Z")

\* str.lower()
Lower(s) ==
    [i \in 1..Len(s) |-> IF s[i] \in UpperLetters THEN ToLowerTable[s[i]] ELSE s[i]]

\* str.title(): a letter following a cased letter is lowercased, any other
\* letter is uppercased
Title(s) ==
    [i \in 1..Len(s) |->
        IF i > 1 /\ s[i-1] \in (UpperLetters \cup LowerLetters)
        THEN (IF s[i] \in UpperLetters THEN ToLowerTable[s[i]] ELSE s[i])
        ELSE (IF s[i] \in LowerLetters THEN ToUpperTable[s[i]] ELSE s[i])]

\* Python's "needle in hay" on str
Contains(needle, hay) ==
    \E i \in 0..(Len(hay) - Len(needle)) :
        SubSeq(hay, i + 1, i + Len(needle)) = needle

\* f"{x}": None is formatted as the text None
Fmt(x) == IF x = NULL THEN S_None ELSE x

\* seq[:n] for n >= 0
Take(seq, n) == SubSeq(seq, 1, Min(n, Len(seq)))

\* ' '.join(seq)
RECURSIVE JoinSpace(_)
JoinSpace(seq) ==
    IF seq = <<>> THEN <<>>
    ELSE IF Len(seq) = 1 THEN seq[1]
    ELSE seq[1] \o <<" ">> \o JoinSpace(Tail(seq))

(***************************************************************************)
(* Resume parser: text helpers.                                            *)
(***************************************************************************)
\* the whitespace of the model's alphabet (str.strip(), \\s)
Whitespace == {" ", "\t", "\n"}
Letters == UpperLetters \cup LowerLetters
Digits == {"0", "1", "2", "3", "4", "5", "6", "7", "8", "9"}

\* s.strip(chars)
StripChars(s, chars) ==
    LET kept == {i \in 1..Len(s) : s[i] \notin chars}
    IN  IF kept = {} THEN <<>>
        ELSE SubSeq(s, CHOOSE i \in kept : \A j \in kept : i <= j,
                       CHOOSE i \in kept : \A j \in kept : i >= j)

\* s.strip()
Strip(s) == StripChars(s, Whitespace)

\* re.split on a class of single characters: the pieces between the
\* delimiters, empty pieces included
Split(s, delims) ==
    LET cuts == <<0>> \o SelectSeq([i \in 1..Len(s) |-> i], LAMBDA i : s[i] \in delims)
                      \o <<Len(s) + 1>>
    IN  [n \in 1..(Len(cuts) - 1) |-> SubSeq(s, cuts[n] + 1, cuts[n + 1] - 1)]

\* whether text has the literal word, compared without case, at position i
HasAt(text, i, word) ==
    /\ i >= 1 /\ i + Len(word) - 1 <= Len(text)
    /\ Lower(SubSeq(text, i, i + Len(word) - 1)) = word

(***************************************************************************)
(* Resume parser: the dedupe helper of parse_resume_to_json.               *)
(***************************************************************************)
\* the loop of uniq: seen is the set of keys met, out the list built
RECURSIVE UniqKeyUntrimmedFrom(_, _, _)
UniqKeyUntrimmedFrom(seq, seen, out) ==
    IF seq = <<>> THEN out
    ELSE LET k == Lower(Head(seq))
         IN  IF Strip(k) # <<>> /\ k \notin seen
             THEN UniqKeyUntrimmedFrom(Tail(seq), seen \cup {k}, Append(out, Strip(Head(seq))))
             ELSE UniqKeyUntrimmedFrom(Tail(seq), seen, out)

\* a dedupe whose key is lowercased but not trimmed
UniqKeyUntrimmed(seq) == UniqKeyUntrimmedFrom(seq, {}, <<>>)

RECURSIVE UniqCaseSensitiveFrom(_, _, _)
UniqCaseSensitiveFrom(seq, seen, out) ==
    IF seq = <<>> THEN out
    ELSE LET k == Strip(Head(seq))
         IN  IF k # <<>> /\ k \notin seen
             THEN UniqCaseSensitiveFrom(Tail(seq), seen \cup {k}, Append(out, Strip(Head(seq))))
             ELSE UniqCaseSensitiveFrom(Tail(seq), seen, out)

\* a dedupe whose key is trimmed but not lowercased
UniqCaseSensitive(seq) == UniqCaseSensitiveFrom(seq, {}, <<>>)

\* what the loop of uniq appends over seq when entered with seen: one entry
\* is appended unless its key is empty or seen; a longer sequence is looped
\* over in two halves, the second entered with the keys of the first seen
RECURSIVE UniqFrom(_, _)
UniqFrom(seq, seen) ==
    IF seq = <<>> THEN <<>>
    ELSE IF Len(seq) = 1
    THEN LET k == Lower(Strip(Head(seq)))
         IN  IF k # <<>> /\ k \notin seen THEN <<Strip(Head(seq))>> ELSE <<>>
    ELSE LET half == Len(seq) \div 2
         IN  UniqFrom(SubSeq(seq, 1, half), seen)
                 \o UniqFrom(SubSeq(seq, half + 1, Len(seq)),
                             seen \cup {Lower(Strip(seq[i])) : i \in 1..half})

\* uniq(seq): out starts empty and nothing is seen
Uniq(seq) == UniqFrom(seq, {})

\* entries given to uniq: a word, the same in another case, the same with
\* blanks around it, the empty text, a blank, another word
S_Go == <<"G", "o">>
S_go == <<"g", "o">>
S_GoPadded == <<" ", "G", "o", " ">>
S_Blank == <<" ">>
S_Rust == <<"R", "u", "s", "t">>
UniqEntries == {S_Go, S_go, S_GoPadded, S_empty, S_Blank, S_Rust}
UniqInputs == UNION {[1..n -> UniqEntries] : n \in 0..MaxSeqLen}

\* uniq has not been called
NotDeduped == [done |-> FALSE, out |-> <<>>]
\* parse_resume_to_json has not been called
NotParsed == [done |-> FALSE, failed |-> FALSE, result |-> <<>>]

(***************************************************************************)
(* Resume parser: _extract_skills_from_text.                               *)
(***************************************************************************)
MinSkillLen == 2
MaxSkillLen == 50
SkillsCap == 100

\* the first position from i on that is past the text or holds a character
\* outside class: where a greedy [class]* begun at i ends
RunEnd(text, i, class) ==
    CHOOSE j \in i..(Len(text) + 1) :
        /\ j = Len(text) + 1 \/ text[j] \notin class
        /\ \A m \in i..(j - 1) : text[m] \in class

\* word, then \s+, then one of the endings, from position i: the position
\* after the match, or 0
TwoWordsEnd(text, i, word, endings) ==
    LET w == RunEnd(text, i + Len(word), Whitespace)
        found == {e \in endings : HasAt(text, w, e)}
    IN  IF HasAt(text, i, word) /\ w > i + Len(word) /\ found # {}
        THEN w + Len(CHOOSE e \in found : \A f \in found : Len(e) >= Len(f))
        ELSE 0

\* (skills?|technical\s+skills?|core\s+competenc(?:y|ies)|expertise|
\* proficiencies?), case ignored, from position i: the position after the
\* header word, or 0
HeaderEnd(text, i) ==
    IF HasAt(text, i, <<"s", "k", "i", "l", "l", "s">>) THEN i + 6
    ELSE IF HasAt(text, i, <<"s", "k", "i", "l", "l">>) THEN i + 5
    ELSE IF HasAt(text, i, <<"t", "e", "c", "h", "n", "i", "c", "a", "l">>)
    THEN TwoWordsEnd(text, i, <<"t", "e", "c", "h", "n", "i", "c", "a", "l">>, {<<"s", "k", "i", "l", "l">>, <<"s", "k", "i", "l", "l", "s">>})
    ELSE IF HasAt(text, i, <<"c", "o", "r", "e">>)
    THEN TwoWordsEnd(text, i, <<"c", "o", "r", "e">>, {<<"c", "o", "m", "p", "e", "t", "e", "n", "c", "y">>, <<"c", "o", "m", "p", "e", "t", "e", "n", "c", "i", "e", "s">>})
    ELSE IF HasAt(text, i, <<"e", "x", "p", "e", "r", "t", "i", "s", "e">>) THEN i + 9
    ELSE IF HasAt(text, i, <<"p", "r", "o", "f", "i", "c", "i", "e", "n", "c", "i", "e", "s">>) THEN i + 13
    ELSE IF HasAt(text, i, <<"p", "r", "o", "f", "i", "c", "i", "e", "n", "c", "i", "e">>) THEN i + 12
    ELSE 0

\* the header, then [\s:]*\n taken greedily, from position i: the position
\* where group 2 starts, or 0
SectionStart(text, i) ==
    LET e == HeaderEnd(text, i)
        r == IF e = 0 THEN 0 ELSE RunEnd(text, e, Whitespace \cup {":"})
        newlines == {n \in e..(r - 1) : text[n] = "\n"}
    IN  IF e = 0 \/ newlines = {} THEN 0
        ELSE 1 + CHOOSE n \in newlines : \A m \in newlines : n >= m

\* the lookahead (?=\n\n|\n[A-Z][A-Z\s]+:|\Z) at position k, case ignored
SectionStops(text, k) ==
    \/ k = Len(text) + 1
    \/ /\ text[k] = "\n"
       /\ k + 1 <= Len(text)
       /\ \/ text[k + 1] = "\n"
          \/ /\ text[k + 1] \in Letters
             /\ LET r == RunEnd(text, k + 2, Letters \cup Whitespace)
                IN  r > k + 2 /\ r <= Len(text) /\ text[r] = ":"

\* re.search(skills_section_pattern, raw_text, re.DOTALL): group 2 of the
\* leftmost match, or no match
SkillsSection(text) ==
    LET starts == {i \in 1..Len(text) : SectionStart(text, i) # 0}
    IN  IF starts = {} THEN [matched |-> FALSE, text |-> <<>>]
        ELSE LET i == CHOOSE a \in starts : \A b \in starts : a <= b
                 g == SectionStart(text, i)
                 k == CHOOSE a \in g..(Len(text) + 1) :
                          /\ SectionStops(text, a)
                          /\ \A b \in g..(a - 1) : ~SectionStops(text, b)
             IN  [matched |-> TRUE, text |-> SubSeq(text, g, k - 1)]

\* the delimiters of re.split and the glyphs of strip that are in the
\* model's alphabet
SkillDelimiters == {",", "|", "\n", ";"}
BulletGlyphs == {"-", "*"}
\* ^(and|or|the|with|including|such as|etc)$
NoiseWords == {<<"a", "n", "d">>, <<"o", "r">>, <<"t", "h", "e">>, <<"w", "i", "t", "h">>, <<"i", "n", "c", "l", "u", "d", "i", "n", "g">>, <<"s", "u", "c", "h", " ", "a", "s">>, <<"e", "t", "c">>}

\* item.strip().strip(glyphs)
SkillOf(item) == StripChars(Strip(item), BulletGlyphs)

\* the tests an item passes before it is appended: the length test is on
\* the text as stripped of glyphs, blanks next to a glyph included
KeepsSkill(skill) ==
    /\ skill # <<>>
    /\ MinSkillLen <= Len(skill) /\ Len(skill) <= MaxSkillLen
    /\ \E i \in 1..Len(skill) : skill[i] \in Letters
    /\ Lower(skill) \notin NoiseWords

\* the loop over skill_items
SkillsOfSection(skills_text) ==
    LET skill_items == Split(skills_text, SkillDelimiters)
    IN  SelectSeq([n \in 1..Len(skill_items) |-> SkillOf(skill_items[n])], KeepsSkill)

\* an extraction that, finding no section, falls back on keywords
ExtractSkillsOrKeywords(text) ==
    LET m == SkillsSection(text)
    IN  IF m.matched THEN Take(SkillsOfSection(m.text), SkillsCap)
        ELSE SelectSeq(<<<<"p", "y", "t", "h", "o", "n">>, <<"g", "o">>>>, LAMBDA w : Contains(w, Lower(text)))

\* _extract_skills_from_text(raw_text)
ExtractSkillsFromText(text) ==
    LET m == SkillsSection(text)
    IN  IF m.matched THEN Take(SkillsOfSection(m.text), SkillsCap) ELSE <<>>

(***************************************************************************)
(* Resume parser: education, experience and name.                          *)
(***************************************************************************)
\* the length of the first word of words found at position i, or 0
WordLenAt(text, i, words) ==
    LET found == {n \in 1..Len(words) : HasAt(text, i, words[n])}
    IN  IF found = {} THEN 0
        ELSE Len(words[CHOOSE n \in found : \A m \in found : n <= m])

\* (B\.Sc|M\.Sc|B\.Tech|M\.Tech|PhD|MBA|Bachelor|Master|Associate)
EducationWords ==
    <<<<"b", ".", "s", "c">>, <<"m", ".", "s", "c">>, <<"b", ".", "t", "e", "c", "h">>, <<"m", ".", "t", "e", "c", "h">>, <<"p", "h", "d">>, <<"m", "b", "a">>, <<"b", "a", "c", "h", "e", "l", "o", "r">>,
      <<"m", "a", "s", "t", "e", "r">>, <<"a", "s", "s", "o", "c", "i", "a", "t", "e">>>>

\* internship|project|worked at|experience
ExperienceWords == <<<<"i", "n", "t", "e", "r", "n", "s", "h", "i", "p">>, <<"p", "r", "o", "j", "e", "c", "t">>, <<"w", "o", "r", "k", "e", "d", " ", "a", "t">>, <<"e", "x", "p", "e", "r", "i", "e", "n", "c", "e">>>>

\* \d+\+?\s?years at position i: the length matched, or 0
YearsLenAt(text, i) ==
    IF text[i] \notin Digits THEN 0
    ELSE LET d == RunEnd(text, i, Digits)
             p == IF d <= Len(text) /\ text[d] = "+" THEN d + 1 ELSE d
             q == IF p <= Len(text) /\ text[p] \in Whitespace THEN p + 1 ELSE p
         IN  IF HasAt(text, q, <<"y", "e", "a", "r", "s">>) THEN q + 5 - i ELSE 0

\* (\d+\+?\s?years|internship|project|worked at|experience) at position i
ExperienceLenAt(text, i) ==
    IF YearsLenAt(text, i) > 0 THEN YearsLenAt(text, i)
    ELSE WordLenAt(text, i, ExperienceWords)

\* re.findall: the matches from position i on, left to right, none
\* overlapping; lens[j] is the length matched at j, or 0
RECURSIVE FindAllFrom(_, _, _)
FindAllFrom(text, lens, i) ==
    LET hits == {j \in i..Len(text) : lens[j] > 0}
        first == CHOOSE j \in hits : \A m \in hits : j <= m
    IN  IF hits = {} THEN <<>>
        ELSE <<SubSeq(text, first, first + lens[first] - 1)>>
                 \o FindAllFrom(text, lens, first + lens[first])

\* re.findall(education_pattern, raw_text, re.I)
FindEducation(text) ==
    FindAllFrom(text, [i \in 1..Len(text) |-> WordLenAt(text, i, EducationWords)], 1)

\* re.findall(experience_pattern, raw_text, re.I)
FindExperience(text) ==
    FindAllFrom(text, [i \in 1..Len(text) |-> ExperienceLenAt(text, i)], 1)

NameLabelLines == 8
NameHeuristicLines == 6
MaxNameTokens == 4

\* [l.strip() for l in raw_text.splitlines() if l.strip()]
NonBlankLines(text) ==
    LET pieces == Split(text, {"\n"})
    IN  SelectSeq([n \in 1..Len(pieces) |-> Strip(pieces[n])], LAMBDA l : l # <<>>)

\* re.match(r"(?i)name[:\-]\s*(.+)", l) on a stripped line: group 1
\* stripped, or the empty text when the line does not match
NameLabel(l) ==
    IF HasAt(l, 1, <<"n", "a", "m", "e">>) /\ Len(l) >= 6 /\ l[5] \in {":", "-"}
    THEN Strip(SubSeq(l, 6, Len(l)))
    ELSE <<>>

\* len(l.split())
TokenCount(l) ==
    Cardinality({i \in 1..Len(l) :
                    l[i] \notin Whitespace /\ (i = 1 \/ l[i - 1] \in Whitespace)})

\* the test of the heuristic loop
LooksLikeName(l) ==
    /\ \A i \in 1..Len(l) : l[i] # "@" /\ l[i] \notin Digits
    /\ 1 <= TokenCount(l) /\ TokenCount(l) <= MaxNameTokens

\* the first entry of seq among the positions hits (where the loop
\* breaks), as a sequence of at most one entry
FirstWhere(seq, hits) ==
    IF hits = {} THEN <<>>
    ELSE <<seq[CHOOSE n \in hits : \A m \in hits : n <= m]>>

\* the name of parse_resume_to_json
ExtractName(text) ==
    LET lines == NonBlankLines(text)
        labelled == FirstWhere(lines, {n \in 1..Min(Len(lines), NameLabelLines) :
                                          NameLabel(lines[n]) # <<>>})
        guessed == FirstWhere(lines, {n \in 1..Min(Len(lines), NameHeuristicLines) :
                                         LooksLikeName(lines[n])})
    IN  IF labelled # <<>> THEN NameLabel(labelled[1])
        ELSE IF guessed # <<>> THEN guessed[1]
        ELSE <<>>

(***************************************************************************)
(* Resume parser: parse_resume_to_json.                                    *)
(***************************************************************************)
\* a failure structure that loses the text
FailureStructureEmpty(text) ==
    [skills |-> <<>>, education |-> <<>>, experience |-> <<>>, raw_text |-> <<>>]

\* the structure returned by the except clause
FailureStructure(text) ==
    [skills |-> <<>>, education |-> <<>>, experience |-> <<>>, raw_text |-> text]

\* a parser that dedupes the accepted candidates first and caps afterwards
ParseResumeCappingLast(text) ==
    IF text = NULL
    THEN [done |-> TRUE, failed |-> TRUE, result |-> FailureStructure(text)]
    ELSE [done |-> TRUE, failed |-> FALSE,
          result |-> [name |-> ExtractName(text),
                      skills |-> IF SkillsSection(text).matched
                                 THEN Take(Uniq(SkillsOfSection(SkillsSection(text).text)),
                                           SkillsCap)
                                 ELSE <<>>,
                      education |-> Uniq(FindEducation(text)),
                      experience |-> Uniq(FindExperience(text)),
                      raw_text |-> text]]

\* parse_resume_to_json(raw_text): a text is parsed; an argument that is not
\* a text makes re.search raise, and the except clause answers.  The fields
\* email, phone and location, read by no property here, are left out.
ParseResumeToJson(text) ==
    IF text = NULL
    THEN [done |-> TRUE, failed |-> TRUE, result |-> FailureStructure(text)]
    ELSE [done |-> TRUE, failed |-> FALSE,
          result |-> [name |-> ExtractName(text),
                      skills |-> Uniq(ExtractSkillsFromText(text)),
                      education |-> Uniq(FindEducation(text)),
                      experience |-> Uniq(FindExperience(text)),
                      raw_text |-> text]]

(***************************************************************************)
(* Resume parser: the texts it is given.                                   *)
(***************************************************************************)
\* a text is made of at most MaxChunks chunks, one per line or pair of lines
MaxChunks == 2
\* a name line is tried after up to MaxFill lines that are no name
MaxFill == 8
\* a skills section lists at most MaxItems items
MaxItems == 3

\* '\n'.join(seq)
RECURSIVE JoinLines(_)
JoinLines(seq) ==
    IF seq = <<>> THEN <<>>
    ELSE IF Len(seq) = 1 THEN seq[1]
    ELSE seq[1] \o <<"\n">> \o JoinLines(Tail(seq))

\* ','.join(seq)
RECURSIVE JoinComma(_)
JoinComma(seq) ==
    IF seq = <<>> THEN <<>>
    ELSE IF Len(seq) = 1 THEN seq[1]
    ELSE JoinComma(SubSeq(seq, 1, Len(seq) \div 2)) \o <<",">>
             \o JoinComma(SubSeq(seq, (Len(seq) \div 2) + 1, Len(seq)))

\* lines that give a name, or fail to: a plain name, a labelled name, a
\* label with nothing after it, a sentence of five words
L_Plain == <<"J", "a", "n", "e", " ", "R", "o", "e">>
L_Labelled == <<"N", "a", "m", "e", ":", " ", "B", "o", "b", " ", "L", "e", "e">>
L_LabelOnly == <<"N", "a", "m", "e", ":">>
L_FiveWords == <<"B", "u", "i", "l", "t", " ", "P", "y", "t", "h", "o", "n", " ", "a", "n", "d", " ", "G", "o", " ", "a", "p", "p", "s">>
\* a line with an address and digits, never taken for a name
L_Contact == <<"j", "a", "n", "e", "@", "x", ".", "i", "o", " ", "5", "5", "5">>
NameLines == {L_Plain, L_Labelled, L_LabelOnly, L_FiveWords}

\* the chunks: the lines above, a blank line, and
\*   a skills section with a repeated and a one-letter item
\*   a header with a colon, bullets, a noise word, an item without letters
\*   a header with its list on the same line
\*   prose that ends a line with the word skills
\*   a second kind of header, with the other delimiters
\*   a section with an item of 50 and one of 51 characters
\*   a line that looks like a header (letters, then a colon), with degrees
\*   a line of experience phrases
ResumeChunks ==
    NameLines \cup
    {L_Contact, <<>>,
     <<"S", "k", "i", "l", "l", "s", "\n", "P", "y", "t", "h", "o", "n", ",", " ", "G", "o", ",", " ", "p", "y", "t", "h", "o", "n", " ", ",", " ", "C">>,
     <<"S", "K", "I", "L", "L", "S", ":", "\n", "-", " ", "C", ",", " ", "a", "n", "d", ",", " ", "4", "2", ",", " ", "*", "R", "u", "s", "t", "*">>,
     <<"S", "k", "i", "l", "l", "s", ":", " ", "P", "y", "t", "h", "o", "n", ",", " ", "G", "o">>,
     <<"s", "t", "r", "o", "n", "g", " ", "s", "k", "i", "l", "l", "s", "\n", "i", "n", " ", "G", "o">>,
     <<"T", "e", "c", "h", "n", "i", "c", "a", "l", " ", " ", "S", "k", "i", "l", "l", "s", " ", ":", "\n", "\n", "G", "o", " ", "|", " ", "R", "u", "s", "t", ";", " ", "g", "o">>,
     <<"E", "x", "p", "e", "r", "t", "i", "s", "e", "\n", "x", "x", "x", "x", "x", "x", "x", "x", "x", "x", "x", "x", "x", "x", "x", "x", "x", "x", "x", "x", "x", "x", "x", "x", "x", "x", "x", "x", "x", "x", "x", "x", "x", "x", "x", "x", "x", "x", "x", "x", "x", "x", "x", "x", "x", "x", "x", "x", "x", "x", ",", "y", "y", "y", "y", "y", "y", "y", "y", "y", "y", "y", "y", "y", "y", "y", "y", "y", "y", "y", "y", "y", "y", "y", "y", "y", "y", "y", "y", "y", "y", "y", "y", "y", "y", "y", "y", "y", "y", "y", "y", "y", "y", "y", "y", "y", "y", "y", "y", "y", "y", "y">>,
     <<"E", "d", "u", "c", "a", "t", "i", "o", "n", ":", " ", "P", "h", "D", ",", " ", "p", "h", "d", ",", " ", "M", "B", "A">>,
     <<"5", " ", "y", "e", "a", "r", "s", ",", " ", "5", "+", " ", "Y", "e", "a", "r", "s", " ", "a", "s", " ", "i", "n", "t", "e", "r", "n", ",", " ", "E", "x", "p", "e", "r", "i", "e", "n", "c", "e">>}

\* the headers and items of the skills sections given as a list
SkillsHeaders == {<<"S", "k", "i", "l", "l", "s", "\n">>, <<"S", "K", "I", "L", "L", "S", ":", "\n">>, <<"S", "k", "i", "l", "l", "s", ":", " ">>}
SkillItems == {<<"P", "y", "t", "h", "o", "n">>, <<" ", "p", "y", "t", "h", "o", "n">>, <<" ", "G", "o">>, <<" ", "C">>, <<"-", " ", "C">>}
ItemLists == UNION {[1..n -> SkillItems] : n \in 1..MaxItems}

ResumeTexts ==
    {NULL}
    \cup {JoinLines(chunks) : chunks \in UNION {[1..n -> ResumeChunks] : n \in 0..MaxChunks}}
    \cup {JoinLines([n \in 1..k |-> L_Contact] \o <<l>>) : k \in 1..MaxFill, l \in NameLines}
    \cup {h \o JoinComma(items) : h \in SkillsHeaders, items \in ItemLists}

(***************************************************************************)
(* Inputs: search queries, parsed resumes, provider responses.             *)
(***************************************************************************)
QPython == [keywords |-> S_python, location |-> S_empty, experience_level |-> S_Any]
QAustin == [keywords |-> S_empty, location |-> S_austin, experience_level |-> S_Any]

\* Queries whose cache entries the model keeps.  A query outside this set
\* stands for the unbounded supply of query texts never searched before or
\* again: its entry is never read, so the model's cache is the dictionary
\* restricted to the tracked keys.
TrackedQueries == {QPython}
FreshQueries == {QAustin}

\* hash(str(search_query)), taken to be collision-free on the queries above
QueryHash(q) == IF q = QPython THEN 1 ELSE 2

\* cache_key = f"{hash(str(search_query))}_{max_results}"
CacheKey(q, max_results) == <<QueryHash(q), max_results>>

\* the minimal resume of search_jobs_legacy, and a resume with skills
RMinimal == [skills |-> <<>>, experience |-> <<>>, location |-> S_empty]
RDev == [skills |-> <<S_Python, S_SQL>>, experience |-> <<S_LeadDev, S_5years>>,
         location |-> S_Austin]
\* a resume with more matching skills than a listing shows
RMany == [skills |-> <<S_Python, S_SQL, <<"D", "e", "v">>, <<"T", "e", "a", "m">>, <<"L", "e", "a", "d">>, <<"R", "e", "m", "o", "t", "e">>, <<"G", "o">>>>,
          experience |-> <<>>, location |-> S_A2loc]
Resumes == {RMinimal, RDev, RMany}

SecondsPerDay == 86400

\* A posting date as the provider reports it: absent, unparseable, an ISO
\* text with a zone (parsed to an aware datetime), or a text without zone
\* (a naive datetime, "at" seconds after construction).
NoDate == [kind |-> "none", at |-> 0]
BadDate == [kind |-> "bad", at |-> 0]
ZoneDate == [kind |-> "aware", at |-> -SecondsPerDay]
TwoDaysBefore == [kind |-> "naive", at |-> -2 * SecondsPerDay]
\* a zone-less text that reads later than the local clock, as a UTC time
\* does on a host west of Greenwich
TwoDaysAhead == [kind |-> "naive", at |-> 2 * SecondsPerDay]

\* Adzuna records: title, company.display_name, location.display_name,
\* description, redirect_url, salary_min, salary_max, created
A1 == [title |-> S_A1title, company |-> S_A1company, location |-> S_Austin,
       description |-> S_A1desc, url |-> <<"adzuna", 1>>,
       salary_min |-> 90000, salary_max |-> 0, created |-> ZoneDate]
A2 == [title |-> S_A2title, company |-> S_A2company, location |-> S_A2loc,
       description |-> S_A2desc, url |-> <<"adzuna", 2>>,
       salary_min |-> 0, salary_max |-> 0, created |-> TwoDaysBefore]
A3 == [title |-> S_A3title, company |-> S_A3company, location |-> S_Austin,
       description |-> S_A3desc, url |-> <<"adzuna", 3>>,
       salary_min |-> 40000, salary_max |-> 50000, created |-> NoDate]
\* "location": {"display_name": null}
ANullLocation == [A2 EXCEPT !.location = NULL, !.url = <<"adzuna", 4>>]
\* "description": null
ANullDescription == [A2 EXCEPT !.description = NULL, !.url = <<"adzuna", 5>>]

\* JSearch records: job_title, employer_name, job_location, job_description,
\* job_apply_link, job_salary_min, job_salary_max, job_is_remote,
\* job_posted_at_datetime_utc
B1 == [title |-> S_B1title, company |-> S_B1company, location |-> S_B1loc,
       description |-> S_B1desc, url |-> <<"jsearch", 1>>,
       salary_min |-> 0, salary_max |-> 120000, is_remote |-> FALSE,
       created |-> BadDate]
B2 == [title |-> S_B2title, company |-> S_B2company, location |-> S_A2loc,
       description |-> S_B2desc, url |-> <<"jsearch", 2>>,
       salary_min |-> 0, salary_max |-> 0, is_remote |-> TRUE,
       created |-> TwoDaysAhead]
B3 == [title |-> S_B3title, company |-> S_A2company, location |-> S_A2loc,
       description |-> S_B3desc, url |-> <<"jsearch", 3>>,
       salary_min |-> 0, salary_max |-> 0, is_remote |-> FALSE,
       created |-> NoDate]

\* What one HTTP request can end in: no usable response (network error,
\* non-2xx status, malformed JSON), or a parsed response with these records.
\* The request's result count is advisory: a response may be longer.
Failed == [ok |-> FALSE, results |-> <<>>]
Responded(records) == [ok |-> TRUE, results |-> records]
AdzunaRecords == {A1, A2, A3, ANullLocation, ANullDescription}
RapidRecords == {B1, B2, B3}
AdzunaOutcomes ==
    {Failed, Responded(<<>>), Responded(<<A1>>), Responded(<<A1, A2, A3>>),
     Responded(<<ANullLocation>>), Responded(<<ANullDescription>>)}
RapidOutcomes ==
    {Failed, Responded(<<>>), Responded(<<B1>>), Responded(<<B1, B2, B3>>)}

(***************************************************************************)
(* RealJobSearch helpers.                                                  *)
(***************************************************************************)
\* _format_salary: "Not specified", "$a - $b", "$a+", "Up to $b"
FormatSalary(min_sal, max_sal) ==
    IF min_sal = 0 /\ max_sal = 0 THEN <<"Not specified", 0, 0>>
    ELSE IF min_sal # 0 /\ max_sal # 0 THEN <<"range", min_sal, max_sal>>
    ELSE IF min_sal # 0 THEN <<"from", min_sal, 0>>
    ELSE <<"up to", 0, max_sal>>

\* floor division, as timedelta.days rounds towards minus infinity
FloorDiv(a, b) == IF a >= 0 THEN a \div b ELSE -((-a + b - 1) \div b)

\* _calculate_days_ago at clock time t: 0 for a missing date, 0 when parsing
\* raises, 0 when subtracting an aware datetime from the naive now() raises,
\* else the whole days between now() and the date
CalculateDaysAgo(created, t) ==
    IF created.kind = "naive" THEN FloorDiv(t - created.at, SecondsPerDay) ELSE 0

\* the dictionary _search_adzuna builds from one record
AdzunaListing(job, t) ==
    [title |-> job.title, company |-> job.company, location |-> job.location,
     description |-> job.description, url |-> job.url,
     salary |-> FormatSalary(job.salary_min, job.salary_max),
     remote |-> Contains(S_remote, Lower(job.description)),
     hybrid |-> Contains(S_hybrid, Lower(job.description)),
     days_ago |-> CalculateDaysAgo(job.created, t), source |-> "Adzuna"]

\* the dictionary _search_rapidapi builds from one record
RapidListing(job, t) ==
    [title |-> job.title, company |-> job.company, location |-> job.location,
     description |-> job.description, url |-> job.url,
     salary |-> FormatSalary(job.salary_min, job.salary_max),
     remote |-> job.is_remote,
     hybrid |-> Contains(S_hybrid, Lower(job.description)),
     days_ago |-> CalculateDaysAgo(job.created, t), source |-> "JSearch"]

\* building a listing raises when description is None (None.lower())
TranslationRaises(records) == \E i \in 1..Len(records) : records[i].description = NULL

\* decimal digits of a positive integer, as f"{i+1}" writes them
Digit(d) == <<"0", "1", "2", "3", "4", "5", "6", "7", "8", "9">>[d + 1]
RECURSIVE Decimal(_)
Decimal(k) == IF k < 10 THEN <<Digit(k)>> ELSE Decimal(k \div 10) \o <<Digit(k % 10)>>

\* job_templates of _generate_enhanced_mock_jobs
JobTemplates(search_query) ==
    LET keywords == Lower(search_query.keywords)
        location == Lower(search_query.location)
        Kw(default) == IF keywords # <<>> THEN Title(keywords) ELSE default
        Loc(default) == IF location # <<>> THEN Title(location) ELSE default
    IN  << [title |-> S_SeniorSp \o Kw(S_SoftwareEngineer), company |-> S_TechCorp,
            location |-> Loc(S_SanFrancisco),
            description |-> S_JoinPre \o Kw(S_SoftwareEngineer) \o S_JoinPost,
            salary |-> <<"range", 120000, 150000>>, remote |-> TRUE, hybrid |-> FALSE],
           [title |-> Kw(S_SoftwareEngineer) \o S_DashRemote, company |-> S_StartupXYZ,
            location |-> S_Remote,
            description |-> S_FullyPre \o Kw(S_SoftwareEngineer) \o S_FullyPost,
            salary |-> <<"range", 90000, 130000>>, remote |-> TRUE, hybrid |-> FALSE],
           [title |-> S_LeadSp \o Kw(S_Developer), company |-> S_Enterprise,
            location |-> Loc(S_NewYork),
            description |-> S_LeadTeamPre \o Kw(S_developers) \o S_LeadTeamPost,
            salary |-> <<"range", 140000, 180000>>, remote |-> FALSE, hybrid |-> TRUE] >>

\* a loop that numbers every listing, not only those past the templates
MockJobAlwaysNumbered(search_query, i) ==
    LET template == JobTemplates(search_query)[(i % 3) + 1]
    IN  [title |-> template.title \o <<" ">> \o Decimal(i + 1),
         company |-> template.company \o <<" ">> \o Decimal(i + 1),
         location |-> template.location, description |-> template.description,
         url |-> <<"https://example.com/job/", i + 1>>,
         salary |-> template.salary, remote |-> template.remote,
         hybrid |-> template.hybrid, days_ago |-> i % 7, source |-> "Mock Data"]

\* _generate_enhanced_mock_jobs: listing i (0-based) of range(max_results)
MockJob(search_query, i) ==
    LET template == JobTemplates(search_query)[(i % 3) + 1]
    IN  [title |-> IF i > 2 THEN template.title \o <<" ">> \o Decimal(i + 1)
                   ELSE template.title,
         company |-> IF i > 2 THEN template.company \o <<" ">> \o Decimal(i + 1)
                     ELSE template.company,
         location |-> template.location, description |-> template.description,
         url |-> <<"https://example.com/job/", i + 1>>,
         salary |-> template.salary, remote |-> template.remote,
         hybrid |-> template.hybrid, days_ago |-> i % 7, source |-> "Mock Data"]

\* MockJob, evaluated once for every query and index of the model
MockIndices == 0..(MaxResults + MaxMock)
MockJobMemo[search_query \in TrackedQueries \cup FreshQueries, i \in MockIndices] ==
    MockJob(search_query, i)

\* a generator whose loop starts at 1: range(1, max_results)
GenerateMockJobsFromOne(search_query, max_results, parsed_resume) ==
    [i \in 1..(max_results - 1) |-> MockJobMemo[search_query, i]]

GenerateEnhancedMockJobs(search_query, max_results, parsed_resume) ==
    [i \in 1..max_results |-> MockJobMemo[search_query, i - 1]]

SeniorityWords == {S_senior, S_lead, S_principal}
CompanyWords == {S_startup, S_tech, S_software}

\* the text the listing is matched against: f"{title} {description}".lower()
JobText(job) == Lower(Fmt(job.title) \o <<" ">> \o Fmt(job.description))

\* resume_skills, and the ones found in the listing's text
ResumeSkills(parsed_resume) ==
    [i \in 1..Len(parsed_resume.skills) |-> Lower(parsed_resume.skills[i])]
MatchedSkills(job, parsed_resume) ==
    LET InText(skill) == Contains(skill, JobText(job))
    IN  SelectSeq(ResumeSkills(parsed_resume), InText)

\* skills: (matched / total) * 40, capped at 40; nothing for a resume
\* without skills.  int() of the float sum truncates this term alone.
SkillScoreRounded(job, parsed_resume) ==
    LET total == Len(ResumeSkills(parsed_resume))
    IN  IF total = 0 THEN 0
        ELSE Min((Len(MatchedSkills(job, parsed_resume)) * 80 + total)
                     \div (2 * total), 40)

SkillScore(job, parsed_resume) ==
    LET total == Len(ResumeSkills(parsed_resume))
    IN  IF total = 0 THEN 0
        ELSE Min((Len(MatchedSkills(job, parsed_resume)) * 40) \div total, 40)

ExperienceScore(job, parsed_resume) ==
    IF \E w \in SeniorityWords : Contains(w, JobText(job))
    THEN (IF \E w \in SeniorityWords :
                 Contains(w, Lower(JoinSpace(parsed_resume.experience)))
          THEN 30 ELSE 0)
    ELSE 20

\* a location test that an empty resume location does not pass
LocationScoreNamed(job, parsed_resume) ==
    IF job.remote THEN 20
    ELSE IF /\ parsed_resume.location # <<>>
            /\ Contains(Lower(parsed_resume.location), Lower(job.location)) THEN 20
    ELSE 0

LocationScore(job, parsed_resume) ==
    IF job.remote THEN 20
    ELSE IF Contains(Lower(parsed_resume.location), Lower(job.location)) THEN 20
    ELSE 0

CompanyScore(job) ==
    IF \E w \in CompanyWords : Contains(w, Lower(job.company)) THEN 10 ELSE 0

\* a score without the final clipping, with each weight read as a percentage
MatchScoreUnclipped(job, parsed_resume) ==
    ((SkillScore(job, parsed_resume) * 100) \div 40) + ExperienceScore(job, parsed_resume)
        + LocationScore(job, parsed_resume) + CompanyScore(job)

\* job['match_score'] = min(int(score), 100)
MatchScore(job, parsed_resume) ==
    Min(SkillScore(job, parsed_resume) + ExperienceScore(job, parsed_resume)
            + LocationScore(job, parsed_resume) + CompanyScore(job), 100)

\* job['matched_skills'] = matched_skills[:5]
ShownSkillsAll(job, parsed_resume) == MatchedSkills(job, parsed_resume)

ShownSkills(job, parsed_resume) ==
    Take(MatchedSkills(job, parsed_resume), MatchedSkillsShown)

\* scoring a listing raises when None.lower() is evaluated: a null location
\* on a listing that is not remote, or a null company
ScoringRaises(job) ==
    (~job.remote /\ job.location = NULL) \/ job.company = NULL

\* the fields of a listing that scoring reads
ScoringView(job) ==
    [title |-> job.title, description |-> job.description, company |-> job.company,
     location |-> job.location, remote |-> job.remote]

\* every listing the model's providers and templates can produce, as scoring
\* sees it
ScoringViews ==
    {ScoringView(AdzunaListing(r, 0)) : r \in AdzunaRecords \ {ANullDescription}}
        \cup {ScoringView(RapidListing(r, 0)) : r \in RapidRecords}
        \cup {ScoringView(MockJobMemo[q, i]) :
                 q \in TrackedQueries \cup FreshQueries, i \in 0..MaxResults}

\* the two keys _calculate_match_scores sets on a listing, evaluated once for
\* every resume and listing of the model
ScoreMemo[parsed_resume \in Resumes, view \in ScoringViews] ==
    [match_score |-> MatchScore(view, parsed_resume),
     matched_skills |-> ShownSkills(view, parsed_resume)]

\* _calculate_match_scores, for listings none of which raises
CalculateMatchScores(jobs, parsed_resume) ==
    [i \in 1..Len(jobs) |->
        [title |-> jobs[i].title, company |-> jobs[i].company,
         location |-> jobs[i].location, description |-> jobs[i].description,
         url |-> jobs[i].url, salary |-> jobs[i].salary, remote |-> jobs[i].remote,
         hybrid |-> jobs[i].hybrid, days_ago |-> jobs[i].days_ago,
         source |-> jobs[i].source,
         match_score |-> ScoreMemo[parsed_resume, ScoringView(jobs[i])].match_score,
         matched_skills |-> ScoreMemo[parsed_resume, ScoringView(jobs[i])].matched_skills]]

\* the single listing job_scraper.search_jobs returns when the search raises
FallbackListing ==
    [title |-> S_FbTitle, company |-> S_FbCompany, location |-> S_Remote,
     description |-> S_FbDesc, url |-> <<"#", 0>>,
     salary |-> <<"Not specified", 0, 0>>, remote |-> TRUE, hybrid |-> FALSE,
     days_ago |-> 1, source |-> "Fallback", match_score |-> FallbackScore]

\* a wrapper that returns [] when the search raises, as search_jobs_agent does
FallbackResultEmpty == <<>>

\* the list returned in the except branch of job_scraper.search_jobs
FallbackResult == <<FallbackListing>>

(***************************************************************************)
(* Rate limiting and the two providers.  Each operator returns what the    *)
(* method returns together with the rate_limits it leaves behind.          *)
(***************************************************************************)
\* a limit check that lets the call at the ceiling through
IsRateLimitedOffByOne(rl, api, t) ==
    LET info == IF t > rl[api].reset_time
                THEN [calls |-> 0, reset_time |-> t + RateWindow]
                ELSE rl[api]
    IN  [limited |-> info.calls > (IF api = "adzuna" THEN AdzunaLimit ELSE RapidLimit),
         rate_limits |-> [rl EXCEPT ![api] = info]]

\* a limit check that compares the counter before it resets the window
IsRateLimitedCompareFirst(rl, api, t) ==
    LET info == IF t > rl[api].reset_time
                THEN [calls |-> 0, reset_time |-> t + RateWindow]
                ELSE rl[api]
    IN  [limited |-> rl[api].calls >= (IF api = "adzuna" THEN AdzunaLimit ELSE RapidLimit),
         rate_limits |-> [rl EXCEPT ![api] = info]]

\* _is_rate_limited at clock time t
IsRateLimited(rl, api, t) ==
    LET info == IF t > rl[api].reset_time
                THEN [calls |-> 0, reset_time |-> t + RateWindow]
                ELSE rl[api]
    IN  [limited |-> info.calls >= (IF api = "adzuna" THEN AdzunaLimit ELSE RapidLimit),
         rate_limits |-> [rl EXCEPT ![api] = info]]

NotCalled(rl) == [jobs |-> <<>>, rate_limits |-> rl, sent |-> FALSE, failed |-> FALSE]

\* the request of _search_adzuna / _search_rapidapi and what follows it, chk
\* being the result of the rate-limit check: the counter is incremented once
\* the response is parsed, and an exception anywhere in the try block gives []
Request(chk, api, outcome, jobs) ==
    IF chk.limited
    THEN [jobs |-> <<>>, rate_limits |-> chk.rate_limits, sent |-> FALSE,
          failed |-> FALSE]
    ELSE IF ~outcome.ok
    THEN [jobs |-> <<>>, rate_limits |-> chk.rate_limits, sent |-> TRUE,
          failed |-> TRUE]
    ELSE [jobs |-> IF TranslationRaises(outcome.results) THEN <<>> ELSE jobs,
          rate_limits |-> [chk.rate_limits EXCEPT ![api].calls = @ + 1],
          sent |-> TRUE, failed |-> TranslationRaises(outcome.results)]

\* _search_adzuna; outcome is what the HTTP request ends in if it is sent
SearchAdzuna(rl, search_query, max_results, outcome, t) ==
    IF ~has_adzuna THEN NotCalled(rl)
    ELSE Request(IsRateLimited(rl, "adzuna", t), "adzuna", outcome,
                 [i \in 1..Len(outcome.results) |-> AdzunaListing(outcome.results[i], t)])

\* _search_rapidapi
SearchRapidapi(rl, search_query, max_results, outcome, t) ==
    IF ~has_rapidapi THEN NotCalled(rl)
    ELSE Request(IsRateLimited(rl, "rapidapi", t), "rapidapi", outcome,
                 [i \in 1..Len(outcome.results) |-> RapidListing(outcome.results[i], t)])

(***************************************************************************)
(* RealJobSearch.search_jobs                                               *)
(***************************************************************************)
\* a lookup that still serves an entry exactly cache_duration old
CacheFreshInclusive(c, key, t) ==
    key \in DOMAIN c /\ t - c[key].timestamp <= CacheDuration

\* a lookup that passes over entries holding mock listings
CacheFreshUnlessMock(c, key, t) ==
    /\ key \in DOMAIN c
    /\ t - c[key].timestamp < CacheDuration
    /\ \A i \in 1..Len(c[key].jobs) : c[key].jobs[i].source # "Mock Data"

\* the cache lookup of search_jobs: an entry exists and is young enough
CacheFresh(c, key, t) ==
    key \in DOMAIN c /\ t - c[key].timestamp < CacheDuration

\* search_jobs after the cache lookup missed: provider A
TryAdzuna(rl, search_query, max_results, outA, t) ==
    IF has_adzuna /\ 0 < max_results
    THEN SearchAdzuna(rl, search_query, max_results, outA, t)
    ELSE NotCalled(rl)

\* provider B tried only as the alternative to provider A (elif)
TryRapidapiUnlessAdzuna(a, search_query, max_results, outB, t) ==
    IF has_rapidapi /\ ~(has_adzuna /\ 0 < max_results) /\ Len(a.jobs) < max_results
    THEN SearchRapidapi(a.rate_limits, search_query, max_results - Len(a.jobs), outB, t)
    ELSE NotCalled(a.rate_limits)

\* provider B tried whatever provider A returned
TryRapidapiAlways(a, search_query, max_results, outB, t) ==
    IF has_rapidapi
    THEN SearchRapidapi(a.rate_limits, search_query, max_results - Len(a.jobs), outB, t)
    ELSE NotCalled(a.rate_limits)

\* then provider B, if the listings of A are fewer than max_results
TryRapidapi(a, search_query, max_results, outB, t) ==
    IF has_rapidapi /\ Len(a.jobs) < max_results
    THEN SearchRapidapi(a.rate_limits, search_query, max_results - Len(a.jobs), outB, t)
    ELSE NotCalled(a.rate_limits)

\* mock listings used to fill a result shorter than max_results
GatheredToppedUp(a, b, found, parsed_resume, search_query, max_results) ==
    [jobs |-> IF Len(found) < max_results
              THEN found \o GenerateEnhancedMockJobs(search_query,
                                 max_results - Len(found), parsed_resume)
              ELSE found,
     from_adzuna |-> Len(a.jobs),
     from_rapidapi |-> Len(b.jobs),
     failed |-> (IF a.failed THEN {"adzuna"} ELSE {})
                    \cup (IF b.failed THEN {"rapidapi"} ELSE {}),
     rate_limits |-> b.rate_limits,
     http |-> (IF a.sent THEN <<"adzuna">> ELSE <<>>)
              \o (IF b.sent THEN <<"rapidapi">> ELSE <<>>)]

\* the providers' listings alone, without the mock listings
GatheredFromProviders(a, b, found, parsed_resume, search_query, max_results) ==
    [jobs |-> found,
     from_adzuna |-> Len(a.jobs),
     from_rapidapi |-> Len(b.jobs),
     failed |-> (IF a.failed THEN {"adzuna"} ELSE {})
                    \cup (IF b.failed THEN {"rapidapi"} ELSE {}),
     rate_limits |-> b.rate_limits,
     http |-> (IF a.sent THEN <<"adzuna">> ELSE <<>>)
              \o (IF b.sent THEN <<"rapidapi">> ELSE <<>>)]

\* then the mock listings, if the providers gave none
Gathered(a, b, found, parsed_resume, search_query, max_results) ==
    [jobs |-> IF found = <<>>
              THEN GenerateEnhancedMockJobs(search_query, max_results, parsed_resume)
              ELSE found,
     from_adzuna |-> Len(a.jobs),
     from_rapidapi |-> Len(b.jobs),
     failed |-> (IF a.failed THEN {"adzuna"} ELSE {})
                    \cup (IF b.failed THEN {"rapidapi"} ELSE {}),
     rate_limits |-> b.rate_limits,
     http |-> (IF a.sent THEN <<"adzuna">> ELSE <<>>)
              \o (IF b.sent THEN <<"rapidapi">> ELSE <<>>)]

CollectedAfter(a, b, parsed_resume, search_query, max_results) ==
    Gathered(a, b, a.jobs \o b.jobs, parsed_resume, search_query, max_results)

CollectedFrom(a, parsed_resume, search_query, max_results, outB, t) ==
    CollectedAfter(a, TryRapidapi(a, search_query, max_results, outB, t),
                   parsed_resume, search_query, max_results)

\* the steps of search_jobs between the cache miss and the scoring
Collected(parsed_resume, search_query, max_results, outA, outB, t) ==
    CollectedFrom(TryAdzuna(rate_limits, search_query, max_results, outA, t),
                  parsed_resume, search_query, max_results, outB, t)

(***************************************************************************)
(* State machine.                                                          *)
(***************************************************************************)
EmptyMap == [k \in {} |-> <<>>]
Put(map, key, value) == (key :> value) @@ map

\* call: the arguments of the last call, whether the cache lookup found a
\* young entry ("hit") or not ("miss"), whether it found an entry too old,
\* how many listings each provider gave, whose request failed, and which
\* counters stood at their ceiling when the call began
NoCall == [parsed_resume |-> RMinimal, key |-> <<0, 0>>, max_results |-> 0,
           path |-> "none", stale |-> FALSE, from_adzuna |-> 0, from_rapidapi |-> 0,
           failed |-> {}, limited |-> {}]

AtCeiling(rl) ==
    {api \in DOMAIN rl :
        rl[api].calls >= (IF api = "adzuna" THEN AdzunaLimit ELSE RapidLimit)}

InitAggregator ==
    /\ has_adzuna \in BOOLEAN
    /\ has_rapidapi \in BOOLEAN
    /\ cache = EmptyMap
    /\ rate_limits = [api \in {"adzuna", "rapidapi"} |->
                         [calls |-> 0, reset_time |-> RateWindow]]
    /\ now = 0
    /\ result_count \in 0..MaxResults
    /\ ret = <<>>
    /\ raised = FALSE
    /\ http = <<>>
    /\ call = NoCall
    /\ first_ret = EmptyMap

\* no resume is being parsed
ParserIdle ==
    /\ raw_text = NULL
    /\ parsed = NotParsed
    /\ uniq_in = <<>>
    /\ uniq_out = NotDeduped

\* no request logged, no call in flight
NoThread == [pc |-> "idle", path |-> "none", at |-> 0, requested |-> FALSE,
             seen |-> 0, wrote |-> -1, stale |-> FALSE, jobs |-> <<>>]
Unobserved ==
    /\ sent = [api \in {"adzuna", "rapidapi"} |-> 0]
    /\ threads = [t \in {1, 2} |-> NoThread]
    /\ overlapped = FALSE

Init == InitAggregator /\ ParserIdle /\ Unobserved

\* a cache hit that also runs the providers' limit checks
ServeFromCacheCheckingLimits(parsed_resume, key, max_results) ==
    /\ ret' = cache[key].jobs
    /\ raised' = FALSE
    /\ http' = <<>>
    /\ call' = [parsed_resume |-> parsed_resume, key |-> key,
                max_results |-> max_results, path |-> "hit", stale |-> FALSE,
                from_adzuna |-> 0, from_rapidapi |-> 0, failed |-> {},
                limited |-> AtCeiling(rate_limits)]
    /\ rate_limits' = IsRateLimited(IsRateLimited(rate_limits, "adzuna", now).rate_limits,
                                    "rapidapi", now).rate_limits
    /\ UNCHANGED <<cache, first_ret>>

\* search_jobs returns the cached list
ServeFromCache(parsed_resume, key, max_results) ==
    /\ ret' = cache[key].jobs
    /\ raised' = FALSE
    /\ http' = <<>>
    /\ call' = [parsed_resume |-> parsed_resume, key |-> key,
                max_results |-> max_results, path |-> "hit", stale |-> FALSE,
                from_adzuna |-> 0, from_rapidapi |-> 0, failed |-> {},
                limited |-> AtCeiling(rate_limits)]
    /\ UNCHANGED <<cache, rate_limits, first_ret>>

\* search_jobs scores the listings, caches them and returns jobs[:max_results]
ScoreAndStore(scored, key, max_results, keep) ==
    /\ raised' = FALSE
    /\ ret' = Take(scored, max_results)
    /\ cache' = IF keep THEN Put(cache, key, [jobs |-> scored, timestamp |-> now])
                ELSE cache
    /\ first_ret' = IF keep THEN Put(first_ret, key, Take(scored, max_results))
                    ELSE first_ret

\* a wrapper that stores its fallback listing under the key
SearchProvidersCachingFallback(got, parsed_resume, key, max_results, keep) ==
    /\ rate_limits' = got.rate_limits
    /\ http' = got.http
    /\ call' = [parsed_resume |-> parsed_resume, key |-> key,
                max_results |-> max_results, path |-> "miss",
                stale |-> (key \in DOMAIN cache),
                from_adzuna |-> got.from_adzuna,
                from_rapidapi |-> got.from_rapidapi, failed |-> got.failed,
                limited |-> AtCeiling(rate_limits)]
    /\ IF \E i \in 1..Len(got.jobs) : ScoringRaises(got.jobs[i])
       THEN /\ raised' = TRUE
            /\ ret' = FallbackResult
            /\ cache' = Put(cache, key, [jobs |-> FallbackResult, timestamp |-> now])
            /\ UNCHANGED first_ret
       ELSE ScoreAndStore(CalculateMatchScores(got.jobs, parsed_resume), key,
                          max_results, keep)

\* search_jobs after a cache miss, got being what the providers or the
\* templates gave; a listing on which scoring raises ends the call, and the
\* wrapper returns its fallback listing
SearchProviders(got, parsed_resume, key, max_results, keep) ==
    /\ rate_limits' = got.rate_limits
    /\ http' = got.http
    /\ call' = [parsed_resume |-> parsed_resume, key |-> key,
                max_results |-> max_results, path |-> "miss",
                stale |-> (key \in DOMAIN cache),
                from_adzuna |-> got.from_adzuna,
                from_rapidapi |-> got.from_rapidapi, failed |-> got.failed,
                limited |-> AtCeiling(rate_limits)]
    /\ IF \E i \in 1..Len(got.jobs) : ScoringRaises(got.jobs[i])
       THEN /\ raised' = TRUE
            /\ ret' = FallbackResult
            /\ UNCHANGED <<cache, first_ret>>
       ELSE ScoreAndStore(CalculateMatchScores(got.jobs, parsed_resume), key,
                          max_results, keep)

\* job_scraper.search_jobs(parsed_resume, search_query, max_results), with the
\* RealJobSearch.search_jobs call it wraps
SearchJobs(parsed_resume, search_query, max_results, outA, outB) ==
    /\ UNCHANGED <<has_adzuna, has_rapidapi, now, result_count, parser, workers>>
    /\ IF CacheFresh(cache, CacheKey(search_query, max_results), now)
       THEN ServeFromCache(parsed_resume, CacheKey(search_query, max_results),
                           max_results)
       ELSE SearchProviders(Collected(parsed_resume, search_query, max_results,
                                      outA, outB, now),
                            parsed_resume, CacheKey(search_query, max_results),
                            max_results, search_query \in TrackedQueries)

\* a search with a tracked query
Search ==
    /\ \A api \in DOMAIN rate_limits : rate_limits[api].calls < MaxCounted
    /\ \E parsed_resume \in Resumes, search_query \in TrackedQueries,
          outA \in (IF has_adzuna THEN AdzunaOutcomes ELSE {Failed}),
          outB \in (IF has_rapidapi THEN RapidOutcomes ELSE {Failed}) :
           /\ SearchJobs(parsed_resume, search_query, result_count, outA, outB)
           /\ UNCHANGED request_log

\* a search with a query never searched before, in a busy hour
BurstSearch ==
    \E search_query \in FreshQueries,
       outA \in (IF has_adzuna THEN {Failed, Responded(<<A1>>)} ELSE {Failed}),
       outB \in (IF has_rapidapi THEN {Failed, Responded(<<B1>>)} ELSE {Failed}) :
        /\ SearchJobs(RMinimal, search_query, result_count, outA, outB)
        /\ UNCHANGED request_log

\* the clock advances between calls
Tick ==
    /\ \E d \in TickSteps : now + d <= MaxClock /\ now' = now + d
    /\ UNCHANGED <<has_adzuna, has_rapidapi, cache, rate_limits, result_count, ret,
                   raised, http, call, first_ret, parser, request_log, workers>>

Next == Search \/ Tick

Spec == Init /\ [][Next]_vars

\* a busy deployment: every search is a new query
InitBurst == Init /\ result_count = 1
NextBurst == BurstSearch \/ Tick
SpecBurst == InitBurst /\ [][NextBurst]_vars


\* uniq(uniq_in)
Dedupe ==
    /\ ~uniq_out.done
    /\ uniq_out' = [done |-> TRUE, out |-> Uniq(uniq_in)]
    /\ UNCHANGED <<aggregator, raw_text, parsed, uniq_in, request_log, workers>>

\* parse_resume_to_json(raw_text)
ParseResume ==
    /\ ~parsed.done
    /\ parsed' = ParseResumeToJson(raw_text)
    /\ UNCHANGED <<aggregator, raw_text, uniq_in, uniq_out, request_log, workers>>

\* the aggregator left alone: no credentials, no search
AggregatorIdle == InitAggregator /\ ~has_adzuna /\ ~has_rapidapi /\ result_count = 0

\* the dedupe helper applied to one sequence
InitUniq ==
    /\ AggregatorIdle /\ Unobserved
    /\ raw_text = NULL /\ parsed = NotParsed
    /\ uniq_in \in UniqInputs /\ uniq_out = NotDeduped
NextUniq == Dedupe
SpecUniq == InitUniq /\ [][NextUniq]_vars

\* the parser applied to one text
InitResume ==
    /\ AggregatorIdle /\ Unobserved
    /\ raw_text \in ResumeTexts /\ parsed = NotParsed
    /\ uniq_in = <<>> /\ uniq_out = NotDeduped
NextResume == ParseResume
SpecResume == InitResume /\ [][NextResume]_vars

(***************************************************************************)
(* Properties.  A step that leaves the clock alone and changes the state   *)
(* is one search_jobs call; primed variables describe that call.           *)
(***************************************************************************)
Called == now' = now
Providers == {"adzuna", "rapidapi"}
Ceiling(api) == IF api = "adzuna" THEN AdzunaLimit ELSE RapidLimit
Contacted(h) == {h[i] : i \in 1..Len(h)}
Sources(jobs) == {jobs[i].source : i \in 1..Len(jobs)}

\* the call of this step finds, for its key, an entry written less than
\* CacheDuration seconds ago
WithinCacheWindow ==
    /\ Called
    /\ call'.key \in DOMAIN cache
    /\ now - cache[call'.key].timestamp < CacheDuration

\* the call of this step finds, for its key, an entry at least CacheDuration
\* seconds old
PastCacheWindow ==
    /\ Called
    /\ call'.key \in DOMAIN cache
    /\ now - cache[call'.key].timestamp >= CacheDuration

\* C1: a call made less than 3600 seconds after the entry for its key was
\* written returns exactly what the call that wrote the entry returned, and
\* sends no HTTP request.
C1_RepeatReturnsFirstResult ==
    [][WithinCacheWindow => (ret' = first_ret[call'.key] /\ http' = <<>>)]_vars

\* C2: every call of RealJobSearch.search_jobs that returns, returns at most
\* max_results listings, from the providers or from the cache.
C2_AtMostMaxResults ==
    (call.path # "none" /\ ~raised) => Len(ret) <= call.max_results

\* C3: every returned listing (provider, mock, cached, fallback) carries an
\* integer match_score between 0 and 100.
C3_MatchScoreInRange ==
    \A i \in 1..Len(ret) : ret[i].match_score \in 0..100

\* C3 witness: a provider listing that reaches the top score, every component
\* at its maximum, was returned
C3_Witness ==
    /\ \E i \in 1..Len(ret) : ret[i].source = "Adzuna" /\ ret[i].match_score = 100
    /\ call.parsed_resume.skills # <<>>

\* C4: once a provider's counter is at its ceiling and the clock has not
\* passed its reset time, a search that misses the cache sends that provider
\* no request and leaves its counter and reset time alone; and no call takes
\* a counter above its ceiling.
C4_CeilingStopsRequests ==
    [][Called =>
         \A api \in Providers :
            /\ rate_limits'[api].calls <= Ceiling(api)
            /\ (/\ call'.path = "miss"
                /\ rate_limits[api].calls >= Ceiling(api)
                /\ now <= rate_limits[api].reset_time)
               => (api \notin Contacted(http') /\ rate_limits'[api] = rate_limits[api])
      ]_vars

\* C4 witness: Adzuna is configured, its counter stands at the ceiling inside
\* the window, and the last search, a cache miss asking for listings, sent
\* it nothing
C4_Witness ==
    /\ has_adzuna
    /\ rate_limits["adzuna"].calls = AdzunaLimit
    /\ now <= rate_limits["adzuna"].reset_time
    /\ call.path = "miss" /\ call.max_results > 0
    /\ "adzuna" \notin Contacted(http)

\* C5: with no credentials configured a call with max_results = n returns
\* exactly n listings, all "Mock Data" with a match_score in 0..100, sends no
\* HTTP request, leaves both counters alone and does not raise.
C5_NoCredentialsGivesMock ==
    [][(Called /\ ~has_adzuna /\ ~has_rapidapi) =>
         /\ ~raised'
         /\ Len(ret') = call'.max_results
         /\ \A i \in 1..Len(ret') :
                ret'[i].source = "Mock Data" /\ ret'[i].match_score \in 0..100
         /\ http' = <<>>
         /\ rate_limits' = rate_limits
      ]_vars

\* C5 witness: without credentials, a search for the largest count missed the
\* cache and returned that many listings
C5_Witness ==
    /\ ~has_adzuna /\ ~has_rapidapi
    /\ call.path = "miss" /\ call.max_results = MaxResults
    /\ Len(ret) = MaxResults

C7_ProviderFailureIsContained ==
    [][Called =>
         /\ ("adzuna" \in call'.failed => call'.from_adzuna = 0)
         /\ ("rapidapi" \in call'.failed => call'.from_rapidapi = 0)
         /\ ("adzuna" \in call'.failed /\ has_rapidapi
               /\ ~IsRateLimited(rate_limits, "rapidapi", now).limited)
            => "rapidapi" \in Contacted(http')
         /\ (call'.path = "miss" /\ call'.from_adzuna + call'.from_rapidapi = 0)
            => (/\ ~raised'
                /\ Len(ret') = call'.max_results
                /\ Sources(ret') \subseteq {"Mock Data"})
      ]_vars

\* C7 witness: both requests of one call failed and the call returned mock
\* listings
C7_Witness ==
    /\ call.failed = {"adzuna", "rapidapi"}
    /\ ~raised
    /\ ret # <<>> /\ Sources(ret) = {"Mock Data"}

\* C8: when RealJobSearch.search_jobs raises, the wrapper returns one listing,
\* with source "Fallback" and match_score 50.
C8_RaiseGivesFallback ==
    raised => (/\ Len(ret) = 1
               /\ ret[1].source = "Fallback"
               /\ ret[1].match_score = 50)

\* C8 witness: a search raised while scoring a provider listing
C8_Witness == raised /\ call.from_adzuna > 0

\* C9: in one call Adzuna is asked before RapidAPI, each at most once, and
\* RapidAPI only if Adzuna left the result shorter than max_results.
C9_ProvidersInSequence ==
    /\ http \in {<<>>, <<"adzuna">>, <<"rapidapi">>, <<"adzuna", "rapidapi">>}
    /\ "rapidapi" \in Contacted(http) => call.from_adzuna < call.max_results

\* C9 witness: Adzuna answered with fewer listings than asked for and
\* RapidAPI was asked after it
C9_Witness ==
    /\ http = <<"adzuna", "rapidapi">>
    /\ call.from_adzuna > 0 /\ call.from_rapidapi > 0

\* C10 as stated: a call is served from the cache only if the entry is less
\* than 3600 seconds old; every call that finds an entry 3600 seconds old or
\* older runs the provider and fallback steps and leaves, for its key, an
\* entry with the current time.
C10_StaleEntryAlwaysOverwritten ==
    [][/\ (Called /\ call'.path = "hit") => WithinCacheWindow
       /\ PastCacheWindow =>
            /\ call'.path = "miss"
            /\ cache'[call'.key].timestamp = now
      ]_vars

\* C10: a call is served from the cache only if the entry is less than 3600
\* seconds old; a call that finds an entry 3600 seconds old or older runs
\* the provider and fallback steps; if it returns, the entry holds the new
\* result set and the current time, and if it raises (scoring a listing with
\* a null field) the cache is left as it was, old entry included.
C10_EntryExpiresAtCacheDuration ==
    [][/\ (Called /\ call'.path = "hit") => WithinCacheWindow
       /\ PastCacheWindow =>
            /\ call'.path = "miss"
            /\ raised' => cache' = cache
            /\ ~raised' =>
                 /\ cache'[call'.key].timestamp = now
                 /\ ret' = Take(cache'[call'.key].jobs, call'.max_results)
                 /\ Len(cache'[call'.key].jobs) =
                        (IF call'.from_adzuna + call'.from_rapidapi = 0
                         THEN call'.max_results
                         ELSE call'.from_adzuna + call'.from_rapidapi)
      ]_vars

\* C10 witness: an entry exactly 3600 seconds old was found, not served, and
\* replaced by what the providers answered this time
C10_Witness ==
    /\ call.stale /\ ~raised
    /\ now = CacheDuration
    /\ cache[call.key].timestamp = now
    /\ http # <<>>

\* C11: a rate-limit check made after the provider's reset time sets the
\* counter to zero and the reset time to the clock plus 3600 before it
\* compares, so the provider is sent a request by that very search; a check
\* made at or before the reset time leaves the window alone.
C11_ElapsedWindowResets ==
    [][\A api \in Providers :
         (/\ Called /\ call'.path = "miss"
          /\ IF api = "adzuna"
             THEN has_adzuna /\ 0 < call'.max_results
             ELSE has_rapidapi /\ call'.from_adzuna < call'.max_results)
         => IF now > rate_limits[api].reset_time
            THEN /\ rate_limits'[api].reset_time = now + RateWindow
                 /\ rate_limits'[api].calls \in {0, 1}
                 /\ rate_limits'[api].calls = 1 <=> api \notin call'.failed
                 /\ api \in Contacted(http')
            ELSE /\ rate_limits'[api].reset_time = rate_limits[api].reset_time
                 /\ rate_limits'[api].calls >= rate_limits[api].calls
      ]_vars

\* C11 witness: Adzuna's counter stood at the ceiling when the search began,
\* after the reset time; the search sent Adzuna a request and the counter is
\* 1 in the new window
C11_Witness ==
    /\ call.path = "miss" /\ "adzuna" \in call.limited
    /\ "adzuna" \in Contacted(http)
    /\ rate_limits["adzuna"] = [calls |-> 1, reset_time |-> now + RateWindow]

\* C13: uniq is idempotent: applied to its own result it returns that result.
C13_UniqIdempotent ==
    uniq_out.done => Uniq(uniq_out.out) = uniq_out.out

\* C13 witness: uniq was given entries that differ only by case and blanks,
\* and an empty one, and returned fewer entries than it was given
C13_Witness ==
    /\ uniq_out.done
    /\ uniq_in = <<S_GoPadded, S_empty, S_go>>
    /\ uniq_out.out = <<S_Go>>

\* the key uniq compares entries by
DedupeKey(x) == Lower(Strip(x))

\* the positions of raw whose entry is not blank and has a key no earlier
\* entry has
FirstOccurrences(raw) ==
    {i \in 1..Len(raw) :
        /\ DedupeKey(raw[i]) # <<>>
        /\ \A j \in 1..(i - 1) : DedupeKey(raw[j]) # DedupeKey(raw[i])}

\* field lists the trimmed first occurrences of raw, in the order of raw
ListsFirstOccurrences(field, raw) ==
    /\ Len(field) = Cardinality(FirstOccurrences(raw))
    /\ \A i \in FirstOccurrences(raw) :
          field[Cardinality({j \in FirstOccurrences(raw) : j <= i})] = Strip(raw[i])

\* no two entries of field have the same key, and none is empty
DistinctAndNonEmpty(field) ==
    /\ \A i \in 1..Len(field) : field[i] # <<>>
    /\ \A i \in 1..Len(field) : \A j \in (i + 1)..Len(field) :
          DedupeKey(field[i]) # DedupeKey(field[j])

\* C12: in every structure parse_resume_to_json returns, skills, education
\* and experience hold no two entries equal after trimming and lowercasing
\* and no empty entry, and list the raw matches' first occurrences in order.
C12_SequenceFieldsDeduplicated ==
    parsed.done =>
        /\ DistinctAndNonEmpty(parsed.result.skills)
        /\ DistinctAndNonEmpty(parsed.result.education)
        /\ DistinctAndNonEmpty(parsed.result.experience)
        /\ ~parsed.failed =>
             /\ ListsFirstOccurrences(parsed.result.skills, ExtractSkillsFromText(raw_text))
             /\ ListsFirstOccurrences(parsed.result.education, FindEducation(raw_text))
             /\ ListsFirstOccurrences(parsed.result.experience, FindExperience(raw_text))

\* C12 witness: a text whose skills section and whose degrees both repeat an
\* entry in another case was parsed, and each field lost the repetition
C12_Witness ==
    /\ parsed.done /\ ~parsed.failed
    /\ Len(parsed.result.skills) = 2 /\ Len(ExtractSkillsFromText(raw_text)) = 3
    /\ Len(parsed.result.education) = 2 /\ Len(FindEducation(raw_text)) = 3

\* text holds a skills-section header: one of the header words, then blanks
\* or colons, then a line end
HasSkillsHeader(text) ==
    \E i \in 1..Len(text) :
        /\ HeaderEnd(text, i) # 0
        /\ \E n \in HeaderEnd(text, i)..Len(text) :
              /\ text[n] = "\n"
              /\ \A m \in HeaderEnd(text, i)..(n - 1) : text[m] \in Whitespace \cup {":"}

Listed(item) == Strip(StripChars(Strip(item), BulletGlyphs))

\* the texts made of a header and a comma-separated list, with the list
ListedSections ==
    {<<h \o JoinComma(items), [n \in 1..Len(items) |-> Listed(items[n])]>> :
        h \in SkillsHeaders, items \in ItemLists}

\* C15: for a text made of a Skills header and a comma-separated list, the
\* skills are the items of the list, trimmed, without repetition, in the
\* order of first occurrence, none shorter than 2 or longer than 50.
C15_SkillsAreTheListedItems ==
    \A section \in ListedSections :
        (parsed.done /\ raw_text = section[1]) =>
            /\ ListsFirstOccurrences(
                   parsed.result.skills,
                   SelectSeq(section[2],
                             LAMBDA x : MinSkillLen <= Len(x) /\ Len(x) <= MaxSkillLen))
            /\ \A i \in 1..Len(parsed.result.skills) :
                  /\ MinSkillLen <= Len(parsed.result.skills[i])
                  /\ Len(parsed.result.skills[i]) <= MaxSkillLen

\* C16: parse_resume_to_json always returns a structure; raw_text in it is
\* the argument; after an internal error skills, education and experience
\* are empty.
C16_ParseNeverRaises ==
    parsed.done =>
        /\ {"skills", "education", "experience", "raw_text"} \subseteq DOMAIN parsed.result
        /\ parsed.result.raw_text = raw_text
        /\ parsed.failed =>
             /\ parsed.result.skills = <<>>
             /\ parsed.result.education = <<>>
             /\ parsed.result.experience = <<>>

\* C16 witness: the argument was no text, the regex search raised, and the
\* except clause answered
C16_Witness == parsed.done /\ parsed.failed /\ raw_text = NULL

\* the line starts with a name label: name, then a colon or a dash
StartsWithNameLabel(l) ==
    HasAt(l, 1, <<"n", "a", "m", "e">>) /\ Len(l) >= 5 /\ l[5] \in {":", "-"}

\* C20: if one of the first 8 non-blank lines starts with a name label, the
\* name is the text after the first such label; otherwise it is the first
\* of the first 6 non-blank lines with 1 to 4 words, no "@" and no digit;
\* otherwise it is empty.
C20_NameLabelBeforeHeuristic ==
    (parsed.done /\ ~parsed.failed) =>
        LET lines == NonBlankLines(raw_text)
            labelled == FirstWhere(lines, {n \in 1..Min(Len(lines), 8) :
                                              StartsWithNameLabel(lines[n])})
            guessed == FirstWhere(lines, {n \in 1..Min(Len(lines), 6) :
                                             LooksLikeName(lines[n])})
        IN  parsed.result.name =
               (IF labelled # <<>> THEN Strip(SubSeq(labelled[1], 6, Len(labelled[1])))
                ELSE IF guessed # <<>> THEN guessed[1]
                ELSE <<>>)

\* how many of the resume's skills occur, lowercased, in the listing's text
SkillsFound(job, resume) ==
    Cardinality({j \in 1..Len(resume.skills) :
                    Contains(Lower(resume.skills[j]), JobText(job))})

SeniorityNamed(text) == \E w \in SeniorityWords : Contains(w, text)

\* seniority, location and company points as the rule states them
StatedPoints(job, resume) ==
    (IF SeniorityNamed(JobText(job))
     THEN (IF SeniorityNamed(Lower(JoinSpace(resume.experience))) THEN 30 ELSE 0)
     ELSE 20)
    + (IF job.remote \/ Contains(Lower(resume.location), Lower(job.location))
       THEN 20 ELSE 0)
    + (IF \E w \in CompanyWords : Contains(w, Lower(job.company)) THEN 10 ELSE 0)

\* k is the whole part of 40 * found / total + points
WholePartOf(k, found, total, points) ==
    /\ k * total <= 40 * found + total * points
    /\ 40 * found + total * points < (k + 1) * total

\* the score the rule states, for every resume and listing of the model
StatedScore[resume \in Resumes, view \in ScoringViews] ==
    IF Len(resume.skills) = 0 THEN Min(100, StatedPoints(view, resume))
    ELSE Min(100, CHOOSE k \in 0..100 :
                      WholePartOf(k, SkillsFound(view, resume), Len(resume.skills),
                                  StatedPoints(view, resume)))

\* C17: every listing scored by _calculate_match_scores has match_score =
\* min(100, trunc(skill + seniority + location + company)), the skill part
\* being 40 times the share of the resume's skills found in the listing's
\* lowercased title and description (0 for a resume without skills).
C17_MatchScoreFormula ==
    (call.path = "miss" /\ ~raised) =>
        \A i \in 1..Len(ret) :
            ret[i].match_score = StatedScore[call.parsed_resume, ScoringView(ret[i])]

\* C17 witness: a listing was scored whose skill share is not a whole
\* number of points, so that truncation shows
C17_Witness ==
    /\ call.path = "miss" /\ ~raised
    /\ Len(call.parsed_resume.skills) > 0
    /\ \E i \in 1..Len(ret) :
          /\ ret[i].source = "Adzuna"
          /\ (40 * SkillsFound(ret[i], call.parsed_resume))
                 % Len(call.parsed_resume.skills) # 0

\* a is b with some entries left out
RECURSIVE InOrder(_, _)
InOrder(a, b) ==
    IF a = <<>> THEN TRUE
    ELSE IF b = <<>> THEN FALSE
    ELSE IF Head(a) = Head(b) THEN InOrder(Tail(a), Tail(b))
    ELSE InOrder(a, Tail(b))

\* C18: every scored listing's matched_skills has at most 5 entries, each
\* the lowercased form of a resume skill occurring in the listing's
\* lowercased title and description, in the order of the resume's skills.
C18_MatchedSkillsShown ==
    (call.path = "miss" /\ ~raised) =>
        \A i \in 1..Len(ret) :
            LET skills == call.parsed_resume.skills
                shown == ret[i].matched_skills
                lowered == [j \in 1..Len(skills) |-> Lower(skills[j])]
                found == {lowered[j] : j \in {m \in 1..Len(skills) :
                             Contains(lowered[m], JobText(ret[i]))}}
            IN  /\ Len(shown) <= 5
                /\ \A j \in 1..Len(shown) : shown[j] \in found
                /\ InOrder(shown, lowered)

\* C18 witness: a listing matching six of the resume's skills was scored and
\* shows five
C18_Witness ==
    /\ call.path = "miss" /\ ~raised
    /\ \E i \in 1..Len(ret) :
          /\ SkillsFound(ret[i], call.parsed_resume) > 5
          /\ Len(ret[i].matched_skills) = 5

\* C19: every listing the aggregator returns has a days_ago that is a
\* non-negative integer, whatever posting date the provider reported
\* (missing, unparseable, past or later than the current time), and so has
\* every mock listing.
C19_DaysAgoNonNegative ==
    \A i \in 1..Len(ret) : ret[i].days_ago \in Nat

(***************************************************************************)
(* Requests sent per window.                                               *)
(***************************************************************************)
\* the request log after a call: a provider whose window the call's limit
\* check restarted starts from nothing, and every request sent is logged
LoggedAfter(log, before, after, contacted) ==
    [api \in DOMAIN log |->
        (IF after[api].reset_time # before[api].reset_time THEN 0 ELSE log[api])
            + (IF api \in contacted THEN 1 ELSE 0)]

\* a search with a query never searched before, its requests logged; the
\* log is kept until a provider has been sent more than its ceiling
CountedSearch ==
    /\ \A api \in Providers : sent[api] <= Ceiling(api)
    /\ \E search_query \in FreshQueries,
          outA \in (IF has_adzuna THEN {Failed, Responded(<<A1>>)} ELSE {Failed}),
          outB \in (IF has_rapidapi THEN {Failed, Responded(<<B1>>)} ELSE {Failed}) :
           /\ SearchJobs(RMinimal, search_query, result_count, outA, outB)
           /\ sent' = LoggedAfter(sent, rate_limits, rate_limits', Contacted(http'))

\* a deployment with one provider configured, every search a new query
InitSent == Init /\ result_count = 1 /\ has_adzuna # has_rapidapi
NextSent == CountedSearch \/ Tick
SpecSent == InitSent /\ [][NextSent]_vars

\* C21: within one rate-limit window the number of HTTP requests sent to a
\* provider never exceeds its ceiling (100 for Adzuna, 50 for RapidAPI),
\* whatever mix of successful and failing requests the searches meet.
C21_RequestsWithinCeiling ==
    \A api \in Providers : sent[api] <= Ceiling(api)

\* C22: every listing a search_jobs call returns carries the match_score and
\* matched_skills the scoring rule gives for the parsed_resume of that same
\* call, also when the call is served from the cache after a call with the
\* same query and max_results but another resume.
C22_ScoredForCallersResume ==
    (call.path # "none" /\ ~raised) =>
        \A i \in 1..Len(ret) :
            LET scored == ScoreMemo[call.parsed_resume, ScoringView(ret[i])]
            IN  /\ ret[i].match_score = scored.match_score
                /\ ret[i].matched_skills = scored.matched_skills

\* C23: a call served from the cache changes no aggregator state: the cache
\* entries and their timestamps, both call counters and both reset times
\* stay as they were, also when a provider's window has elapsed meanwhile.
C23_CacheHitChangesNothing ==
    [][(Called /\ call'.path = "hit") =>
         (cache' = cache /\ rate_limits' = rate_limits /\ first_ret' = first_ret)
      ]_vars

\* C23 witness: the last call was served from the cache after the window of
\* a provider with counted calls had elapsed, and the counter still stands
C23_Witness ==
    /\ call.path = "hit"
    /\ \E api \in Providers :
          now > rate_limits[api].reset_time /\ rate_limits[api].calls > 0

\* the counter a provider's limit check leaves before a request
CounterAfterCheck(api) ==
    IF now > rate_limits[api].reset_time THEN 0 ELSE rate_limits[api].calls

\* C24: when RealJobSearch.search_jobs raises after the provider steps
\* (scoring a listing with a null location or company), no cache entry is
\* written or changed, the wrapper's fallback listing is never stored, the
\* next identical search misses the cache again, and the counters of the
\* providers that answered stay incremented.
C24_RaiseLeavesCacheAlone ==
    [][(Called /\ raised') =>
         /\ cache' = cache
         /\ ~CacheFresh(cache', call'.key, now')
         /\ \A k \in DOMAIN cache' : \A i \in 1..Len(cache'[k].jobs) :
                cache'[k].jobs[i].source # "Fallback"
         /\ call'.from_adzuna > 0 =>
                rate_limits'["adzuna"].calls = CounterAfterCheck("adzuna") + 1
         /\ call'.from_rapidapi > 0 =>
                rate_limits'["rapidapi"].calls = CounterAfterCheck("rapidapi") + 1
      ]_vars

\* C24 witness: scoring raised on a provider's listing, the fallback was
\* returned, the provider's counter stands incremented and the key has no
\* entry
C24_Witness ==
    /\ raised /\ call.path = "miss"
    /\ Sources(ret) = {"Fallback"}
    /\ call.from_adzuna > 0 /\ rate_limits["adzuna"].calls > 0
    /\ call.key \notin DOMAIN cache

\* C25: mock results are cached like any other result: an identical search
\* made less than 3600 seconds later returns those "Mock Data" listings and
\* attempts no provider, even if a provider has recovered or its window has
\* restarted since.
C25_MockResultsAreCached ==
    [][Called =>
         /\ (call'.path = "miss" /\ ~raised' /\ Sources(ret') = {"Mock Data"}) =>
                /\ call'.key \in DOMAIN cache'
                /\ cache'[call'.key].timestamp = now
                /\ Take(cache'[call'.key].jobs, call'.max_results) = ret'
         /\ (WithinCacheWindow /\ Sources(cache[call'.key].jobs) = {"Mock Data"}) =>
                /\ ret' = cache[call'.key].jobs
                /\ http' = <<>>
                /\ rate_limits' = rate_limits
      ]_vars

\* C25 witness: with a provider configured, a later call was served mock
\* listings from the cache
C25_Witness ==
    /\ call.path = "hit"
    /\ Sources(ret) = {"Mock Data"}
    /\ has_adzuna
    /\ now > cache[call.key].timestamp

\* C28: a resume whose location is the empty text (the value .get gives for
\* a missing one too) receives the +20 location part against every listing
\* scored, remote or not, so every such match_score is at least 20.
C28_EmptyLocationAlwaysMatches ==
    (call.path = "miss" /\ ~raised /\ call.parsed_resume.location = <<>>) =>
        \A i \in 1..Len(ret) :
            /\ ret[i].match_score >= 20
            /\ ret[i].match_score =
                  Min(100, SkillScore(ret[i], call.parsed_resume)
                               + ExperienceScore(ret[i], call.parsed_resume)
                               + 20 + CompanyScore(ret[i]))

\* C28 witness: a listing that is not remote and names a place was scored
\* for a resume without location
C28_Witness ==
    /\ call.path = "miss" /\ ~raised /\ call.parsed_resume.location = <<>>
    /\ \E i \in 1..Len(ret) :
          ~ret[i].remote /\ ret[i].location \notin {<<>>, NULL}

\* C30: for every max_results >= 1 the top-level search_jobs returns at least
\* one listing, whatever the cache and the counters hold and whatever the
\* providers do: provider listings, mock listings, a cached result or the
\* fallback listing.
C30_NeverEmpty ==
    (call.path # "none" /\ call.max_results >= 1) =>
        /\ Len(ret) >= 1
        /\ Sources(ret) \subseteq {"Adzuna", "JSearch", "Mock Data", "Fallback"}

\* C30 witness: both providers answered with an empty list, and the call
\* still returned listings
C30_Witness ==
    /\ call.path = "miss" /\ call.max_results >= 1
    /\ Contacted(http) = {"adzuna", "rapidapi"}
    /\ call.failed = {} /\ call.from_adzuna = 0 /\ call.from_rapidapi = 0
    /\ Len(ret) >= 1

(***************************************************************************)
(* The mock generator alone.                                               *)
(***************************************************************************)
\* _generate_enhanced_mock_jobs(search_query, result_count, parsed_resume)
GenerateMock ==
    /\ call.path = "none"
    /\ \E search_query \in TrackedQueries \cup FreshQueries, parsed_resume \in Resumes :
          /\ ret' = GenerateEnhancedMockJobs(search_query, result_count, parsed_resume)
          /\ call' = [NoCall EXCEPT !.parsed_resume = parsed_resume,
                                    !.key = CacheKey(search_query, result_count),
                                    !.max_results = result_count,
                                    !.path = "mock"]
    /\ UNCHANGED <<has_adzuna, has_rapidapi, cache, rate_limits, now, result_count,
                   raised, http, first_ret, parser, request_log, workers>>

\* an instance without credentials, asked for result_count mock listings
InitMock ==
    /\ has_adzuna = FALSE /\ has_rapidapi = FALSE
    /\ cache = EmptyMap /\ first_ret = EmptyMap
    /\ rate_limits = [api \in {"adzuna", "rapidapi"} |->
                         [calls |-> 0, reset_time |-> RateWindow]]
    /\ now = 0
    /\ result_count \in 0..MaxMock
    /\ ret = <<>> /\ raised = FALSE /\ http = <<>> /\ call = NoCall
    /\ ParserIdle /\ Unobserved
NextMock == GenerateMock
SpecMock == InitMock /\ [][NextMock]_vars

\* the numeral appended to the titles past the templates
Numeral(k) ==
    <<"1", "2", "3", "4", "5", "6", "7", "8", "9", "10", "11", "12", "13", "14",
      "15", "16", "17", "18", "19", "20">>[k]

\* text is stem, a blank and the numeral of k
Numbered(text, stem, k) ==
    /\ Len(text) > Len(stem) + 1
    /\ SubSeq(text, 1, Len(stem)) = stem
    /\ text[Len(stem) + 1] = " "
    /\ LET digits == SubSeq(text, Len(stem) + 2, Len(text))
       IN  \/ Len(digits) = 1 /\ digits[1] = Numeral(k)
           \/ Len(digits) = 2 /\ digits[1] \o digits[2] = Numeral(k)

\* C27: for max_results = n the mock generator returns exactly n listings in
\* template order: listing i (0-based) is built from template i mod 3, has
\* the url /job/(i+1), days_ago = i mod 7 and source "Mock Data"; listings
\* 0..2 keep the template's title and company, later ones have i+1 appended
\* to both; all urls differ.
C27_MockListings ==
    call.path = "mock" =>
        LET search_query == CHOOSE q \in TrackedQueries \cup FreshQueries :
                                CacheKey(q, call.max_results) = call.key
            templates == JobTemplates(search_query)
        IN  /\ Len(ret) = call.max_results
            /\ \A n \in 1..Len(ret) :
                  LET i == n - 1
                      template == templates[(i % 3) + 1]
                  IN  /\ ret[n].url = <<"https://example.com/job/", i + 1>>
                      /\ ret[n].days_ago = i % 7
                      /\ ret[n].source = "Mock Data"
                      /\ ret[n].location = template.location
                      /\ ret[n].description = template.description
                      /\ ret[n].salary = template.salary
                      /\ ret[n].remote = template.remote
                      /\ ret[n].hybrid = template.hybrid
                      /\ IF i <= 2
                         THEN /\ ret[n].title = template.title
                              /\ ret[n].company = template.company
                         ELSE /\ Numbered(ret[n].title, template.title, i + 1)
                              /\ Numbered(ret[n].company, template.company, i + 1)
            /\ \A m, n \in 1..Len(ret) : m # n => ret[m].url # ret[n].url

\* C27 witness: the generator was asked for more listings than a week has
\* days and more than twice the templates, a two-digit number among them
C27_Witness ==
    /\ call.path = "mock"
    /\ Len(ret) >= 10
    /\ ret[8].days_ago = 0
    /\ ret[10].title # ret[1].title

(***************************************************************************)
(* The parser on long skills sections.                                     *)
(***************************************************************************)
\* a section lists SkillsCap - MaxOver .. SkillsCap + MaxOver items, of which
\* up to MaxRepeats repeat the first in another case
MaxOver == 4
MaxRepeats == 6

\* item j of a section whose items 2..d+1 repeat the first: s1, S1, ..., sj
LongItem(j, d) ==
    IF 2 <= j /\ j <= d + 1 THEN <<"S">> \o Decimal(1) ELSE <<"s">> \o Decimal(j)

\* "Skills\n" and n such items, separated by commas
LongText[n \in (SkillsCap - MaxOver)..(SkillsCap + MaxOver), d \in 0..MaxRepeats] ==
    <<"S", "k", "i", "l", "l", "s", "\n">>
        \o JoinComma([j \in 1..n |-> LongItem(j, d)])

LongTexts == {LongText[n, d] : n \in (SkillsCap - MaxOver)..(SkillsCap + MaxOver),
                               d \in 0..MaxRepeats}

\* the parser applied to one long text
InitLong ==
    /\ AggregatorIdle /\ Unobserved
    /\ raw_text \in LongTexts /\ parsed = NotParsed
    /\ uniq_in = <<>> /\ uniq_out = NotDeduped
NextLong == ParseResume
SpecLong == InitLong /\ [][NextLong]_vars

\* C29: the skills field never has more than 100 entries, and the cap is
\* applied to the accepted candidates before deduplication: the field is the
\* case-insensitive dedupe of the first 100 accepted candidates, so skills
\* after the 100th candidate are dropped even when repeats among the first
\* 100 leave the field shorter than 100.
C29_CapBeforeDedupe ==
    (parsed.done /\ ~parsed.failed) =>
        /\ Len(parsed.result.skills) <= 100
        /\ \A n \in (SkillsCap - MaxOver)..(SkillsCap + MaxOver), d \in 0..MaxRepeats :
              raw_text = LongText[n, d] =>
                  parsed.result.skills =
                      <<LongItem(1, d)>>
                          \o [k \in 1..(Min(n, 100) - d - 1) |-> LongItem(k + d + 1, d)]

\* C29 witness: a section of more than 100 items with repeats among the
\* first 100 was parsed, and the field is shorter than 100
C29_Witness ==
    /\ parsed.done /\ ~parsed.failed
    /\ \E n \in 101..(SkillsCap + MaxOver), d \in 1..MaxRepeats :
          raw_text = LongText[n, d] /\ Len(parsed.result.skills) = 100 - d

(***************************************************************************)
(* Two search_jobs calls on the instance get_job_search() shares, run step *)
(* by step: cache lookup, limit check, HTTP request, the read and the      *)
(* write of `calls += 1`, cache write.  Both calls pass the same query and *)
(* max_results, so the same cache_key; only Adzuna is configured.  Each    *)
(* thread record holds the call's position (pc), the path its lookup took, *)
(* the clock at the lookup (at), whether it sent a request, the counter it *)
(* read (seen) and wrote, whether the counter had changed in between       *)
(* (stale), and its local jobs list.                                       *)
(***************************************************************************)
SharedQuery == QPython
SharedKey == CacheKey(SharedQuery, 1)
Other(t) == 3 - t
InFlight(th) == th.pc \notin {"idle", "done"}

\* a call that returns without writing its results to the cache
StoredNowhere(c, key, jobs, t) == c

\* self.cache[cache_key] = (jobs, time.time())
Stored(c, key, jobs, t) == Put(c, key, [jobs |-> jobs, timestamp |-> t])

InterleavedFrame ==
    UNCHANGED <<has_adzuna, has_rapidapi, result_count, ret, raised, http, call,
                first_ret, now, parser, request_log>>

\* a thread enters search_jobs
CallBegins(t) ==
    /\ threads[t].pc = "idle"
    /\ threads' = [threads EXCEPT ![t].pc = "lookup"]
    /\ overlapped' = (overlapped \/ InFlight(threads[Other(t)]))
    /\ UNCHANGED <<cache, rate_limits>>
    /\ InterleavedFrame

\* the cache lookup: a young entry is returned, anything else goes on
CacheCheck(t) ==
    /\ threads[t].pc = "lookup"
    /\ threads' = [threads EXCEPT ![t] =
                      IF CacheFresh(cache, SharedKey, now)
                      THEN [@ EXCEPT !.pc = "done", !.path = "hit", !.at = now,
                                     !.jobs = cache[SharedKey].jobs]
                      ELSE [@ EXCEPT !.pc = "limit", !.path = "miss", !.at = now]]
    /\ UNCHANGED <<cache, rate_limits, overlapped>>
    /\ InterleavedFrame

\* _is_rate_limited('adzuna') inside _search_adzuna: a limited call gets []
RateLimitCheck(t) ==
    /\ threads[t].pc = "limit"
    /\ rate_limits' = IsRateLimited(rate_limits, "adzuna", now).rate_limits
    /\ threads' = [threads EXCEPT ![t].pc =
                      IF IsRateLimited(rate_limits, "adzuna", now).limited
                      THEN "store" ELSE "request"]
    /\ UNCHANGED <<cache, overlapped>>
    /\ InterleavedFrame

\* requests.get ... response.json(): an exception gives [], a response goes
\* on to the counter
HttpRequest(t) ==
    /\ threads[t].pc = "request"
    /\ \E outcome \in {Failed, Responded(<<A1>>)} :
          threads' = [threads EXCEPT ![t] =
                         [@ EXCEPT !.requested = TRUE,
                                   !.pc = IF outcome.ok THEN "read" ELSE "store"]]
    /\ UNCHANGED <<cache, rate_limits, overlapped>>
    /\ InterleavedFrame

\* self.rate_limits['adzuna']['calls'] += 1, the load
CounterRead(t) ==
    /\ threads[t].pc = "read"
    /\ threads' = [threads EXCEPT ![t] =
                      [@ EXCEPT !.pc = "write", !.seen = rate_limits["adzuna"].calls]]
    /\ UNCHANGED <<cache, rate_limits, overlapped>>
    /\ InterleavedFrame

\* self.rate_limits['adzuna']['calls'] += 1, the store; the listings of the
\* response are translated after it
CounterWrite(t) ==
    /\ threads[t].pc = "write"
    /\ rate_limits' = [rate_limits EXCEPT !["adzuna"].calls = threads[t].seen + 1]
    /\ threads' = [threads EXCEPT ![t] =
                      [@ EXCEPT !.pc = "store", !.wrote = threads[t].seen + 1,
                                !.stale = (rate_limits["adzuna"].calls # threads[t].seen),
                                !.jobs = <<AdzunaListing(A1, now)>>]]
    /\ UNCHANGED <<cache, overlapped>>
    /\ InterleavedFrame

\* the rest of search_jobs: templates when jobs is empty, scoring, the cache
\* write, the return
CacheWrite(t) ==
    /\ threads[t].pc = "store"
    /\ LET jobs == IF threads[t].jobs = <<>>
                   THEN GenerateEnhancedMockJobs(SharedQuery, 1, RMinimal)
                   ELSE threads[t].jobs
           scored == CalculateMatchScores(jobs, RMinimal)
       IN  /\ cache' = Stored(cache, SharedKey, scored, now)
           /\ threads' = [threads EXCEPT ![t] = [@ EXCEPT !.pc = "done", !.jobs = scored]]
    /\ UNCHANGED <<rate_limits, overlapped>>
    /\ InterleavedFrame

\* the shared instance with Adzuna configured, its counter fresh or one short
\* of the ceiling (entries cached under other keys are left out)
InitInterleaved ==
    /\ has_adzuna = TRUE
    /\ has_rapidapi = FALSE
    /\ cache = EmptyMap
    /\ rate_limits \in {[api \in {"adzuna", "rapidapi"} |->
                            [calls |-> IF api = "adzuna" THEN n ELSE 0,
                             reset_time |-> RateWindow]] : n \in {0, AdzunaLimit - 1}}
    /\ now = 0
    /\ result_count = 1
    /\ ret = <<>>
    /\ raised = FALSE
    /\ http = <<>>
    /\ call = NoCall
    /\ first_ret = EmptyMap
    /\ ParserIdle
    /\ Unobserved

NextInterleaved ==
    \/ Tick
    \/ \E t \in {1, 2} :
          \/ CallBegins(t)
          \/ CacheCheck(t)
          \/ RateLimitCheck(t)
          \/ HttpRequest(t)
          \/ CounterRead(t)
          \/ CounterWrite(t)
          \/ CacheWrite(t)

SpecInterleaved == InitInterleaved /\ [][NextInterleaved]_vars

\* both calls missed the cache for the key less than cache_duration apart,
\* and both sent a request to the provider
BothMissedAndContacted ==
    /\ \A t \in {1, 2} : threads[t].path = "miss" /\ threads[t].requested
    /\ threads[1].at - threads[2].at < CacheDuration
    /\ threads[2].at - threads[1].at < CacheDuration

\* the provider's counter stands above its ceiling
CounterOverCeiling == rate_limits["adzuna"].calls > AdzunaLimit

\* a call stored its increment over a counter that had changed since its load
IncrementLost == \E t \in {1, 2} : threads[t].stale

====
